---- MODULE Spec2Model ----
(***************************************************************************)
(* Logamizer worker: the parse job state machine (parse_log_file), the     *)
(* fetch scheduler (schedule_log_fetches / fetch_logs_from_source) and the *)
(* error-group ingest (analyze_errors_in_log_file), as state machines over *)
(* the committed database rows, the worker sessions and the task queue.    *)
(***************************************************************************)
EXTENDS Integers, Sequences, FiniteSets, TLC

(***************************************************************************)
(* Bounds of the model.                                                    *)
(***************************************************************************)
MaxHours == 2
MaxEvents == 2
MaxWorkerLosses == 1
MaxTime == 7
MaxErrors == 2
MaxTimestamp == 2
MaxFiles == 2
MaxSnapshots == 3
MaxBurstEvents == 4
MaxRuleEvents == 6
MaxAggEvents == 4
MaxLines == 11
MaxPassLines == 2
MaxTokens == 1
MaxTopEvents == 12
MaxPathCount == 2
MaxRetries == 2
MaxEntries == 2

Null == "null"

(***************************************************************************)
(* Parse pipeline: inputs.                                                 *)
(***************************************************************************)
Hours == 1..MaxHours

Paths == {"/index.html", "/../etc/passwd", "/.env"}

LogEvent == [hour : Hours, path : Paths]

EventLists == UNION {[1..k -> LogEvent] : k \in 0..MaxEvents}

\* packages/shared/enums.py
JobStatus == {"pending", "processing", "completed", "failed"}

LogFileStatus == {"pending_upload", "uploaded", "processing", "processed", "failed"}

\* The per-event rules of the security detector that the model's paths can match.
RuleNames == {"path_traversal", "env_file_access"}

RuleMatches(rule, path) ==
    \/ rule = "path_traversal" /\ path = "/../etc/passwd"
    \/ rule = "env_file_access" /\ path = "/.env"

FindingTypes == RuleNames \cup {"anomaly"}

VARIABLES
    \* ---- parse pipeline ----
    events,             \* the events the parser produces from the stored file
    jobExists,          \* a jobs row with the task's job_id exists
    lfExists,           \* the log_files row of job.log_file_id exists
    siteExists,         \* the sites row of log_file.site_id exists
    job,                \* committed jobs row
    log_file,           \* committed log_files row
    aggregates,         \* committed aggregates rows of (site, log_file): hour -> number of rows
    findings,           \* committed findings rows of (site, log_file): type -> number of rows
    pc,                 \* position of the running execution of parse_log_file
    jobLoaded,          \* the local `job` is not None
    lfLoaded,           \* the local `log_file` is not None
    pending,            \* session: aggregates added and not committed, hour -> number
    todo,               \* buckets of aggregation.hourly_buckets still to store
    created_aggregates, \* the local list created_aggregates (hours)
    msg,                \* the task message: queued, running, acked
    losses,             \* number of worker losses so far
    outcome,            \* how the last execution ended: none, returned, raised
    \* ---- fetch scheduler ----
    now,                \* the clock, in seconds
    ticks,              \* beat ticks so far
    log_sources,        \* committed log_sources rows
    queued,             \* fetch_logs_from_source messages in the queue, per source
    running,            \* executions of fetch_logs_from_source under way, per source
    \* ---- error-group ingest ----
    error_groups,       \* committed error_groups rows
    error_occurrences,  \* committed error_occurrences rows: group id -> number of rows
    sess,               \* per ingest task: position and session contents
    \* ---- one execution of fetch_logs_from_source ----
    fsource,            \* committed log_sources row of the fetched source
    fetch,              \* the execution: position, session, local variables
    fetched_files,      \* committed log_files rows created by fetches
    parse_queue,        \* parse_log_file messages enqueued by the fetch
    \* ---- log source API ----
    stored_source,      \* the committed log_sources row the API serves
    response,           \* the last response body sent to the client
    \* ---- anomaly detector ----
    site_aggregates,    \* the baseline snapshots handed to detect_anomalies
    anomaly_call,       \* the last call of detect_anomalies: arguments and result
    \* ---- security detector ----
    sec_events,         \* the events handed to the detector
    sec_findings,       \* the findings of the last detection
    \* ---- aggregator ----
    agg_events,         \* the events passed to add_event so far
    _hourly,            \* Aggregator._hourly: the hourly buckets
    _result,            \* Aggregator._result: the overall statistics
    \* ---- Parser.parse_stream ----
    lines,              \* the kinds of the lines read so far
    result,             \* the ParseResult under construction
    stream_pc,          \* reading, returned, raised
    \* ---- fetched files and their parse tasks ----
    db_log_files,       \* committed log_files rows
    db_jobs,            \* committed jobs rows
    task_queue,         \* parse_log_file messages in the queue: their job_id argument
    ingest,             \* the execution of _fetch_logs_async: position, session
    parse_exec,         \* the execution of parse_log_file: position, job_id
    \* ---- error fingerprints ----
    parsed_errors,      \* two ParsedError records
    fingerprints,       \* their fingerprints, once computed
    \* ---- aggregator: top paths and top ips ----
    top_hourly,         \* Aggregator._hourly: per hour, requests_count, ips and paths
    top_result,         \* Aggregator._result: total_requests and top_paths
    ip_requests,        \* per hour and address, the number of events added
    \* ---- log fetchers ----
    fetcher,            \* the fetcher: ssh or s3, and its configured retries
    fetch_logs,         \* the call of fetch_logs: position, attempts, results
    \* ---- concurrent executions of parse_log_file ----
    job_row,            \* the committed Job row
    log_file_row,       \* the committed LogFile row
    aggregate_rows,     \* the number of batches of Aggregate rows stored
    executions,         \* per worker, the position of its execution
    \* ---- confirm_upload requests ----
    upload_log_file,    \* the committed LogFile row and the holder of its row lock
    object_exists,      \* whether the object is in storage
    upload_jobs,        \* the committed parse jobs of the log file
    sent_tasks,         \* the parse tasks sent to the broker
    confirmations       \* per request, its position and its session's view

parseVars == <<events, jobExists, lfExists, siteExists, job, log_file, aggregates,
               findings, pc, jobLoaded, lfLoaded, pending, todo, created_aggregates,
               msg, losses, outcome>>

schedVars == <<now, ticks, log_sources, queued, running>>

errVars == <<error_groups, error_occurrences, sess>>

fetchVars == <<fsource, fetch, fetched_files, parse_queue>>

redactVars == <<stored_source, response>>

anomVars == <<site_aggregates, anomaly_call>>

secVars == <<sec_events, sec_findings>>

aggVars == <<agg_events, _hourly, _result>>

streamVars == <<lines, result, stream_pc>>

ingestVars == <<db_log_files, db_jobs, task_queue, ingest, parse_exec>>

fpVars == <<parsed_errors, fingerprints>>

topVars == <<top_hourly, top_result, ip_requests>>

fetcherVars == <<fetcher, fetch_logs>>

execVars == <<job_row, log_file_row, aggregate_rows, executions>>

uploadVars == <<upload_log_file, object_exists, upload_jobs, sent_tasks, confirmations>>

lateVars == <<streamVars, ingestVars, fpVars, topVars, fetcherVars, execVars, uploadVars>>

extVars == <<fetchVars, redactVars, anomVars, secVars, aggVars, lateVars>>

coreVars == <<parseVars, schedVars, errVars>>

vars == <<parseVars, schedVars, errVars, extVars>>

earlyVars == <<coreVars, fetchVars, redactVars, anomVars, secVars, aggVars>>

NoRows == [h \in Hours |-> 0]

NoFindings == [t \in FindingTypes |-> 0]

(***************************************************************************)
(* Pure helpers of the pipeline.                                           *)
(***************************************************************************)
\* Aggregator._get_hour_key over a list of events: the set of bucket keys.
BucketHours(evs) == {evs[i].hour : i \in 1..Len(evs)}

RECURSIVE SortedSeq(_)
SortedSeq(S) ==
    IF S = {} THEN <<>>
    ELSE LET m == CHOOSE x \in S : \A y \in S : x <= y
         IN <<m>> \o SortedSeq(S \ {m})

\* Aggregator.get_result: the buckets sorted by hour.
hourly_buckets_drop_first(evs) ==
    IF BucketHours(evs) = {} THEN <<>> ELSE Tail(SortedSeq(BucketHours(evs)))

hourly_buckets(evs) == SortedSeq(BucketHours(evs))

\* _detect_event_rules: one finding per (rule, ip) with a matching event (one ip).
detect_security_findings(evs) ==
    {r \in RuleNames : \E i \in 1..Len(evs) : RuleMatches(r, evs[i].path)}

\* db.add(aggregate): the row joins the session, not the table.
db_add_autocommit(committed, pend, h) ==
    [committed |-> [committed EXCEPT ![h] = @ + 1], pend |-> pend]

db_add(committed, pend, h) ==
    [committed |-> committed, pend |-> [pend EXCEPT ![h] = @ + 1]]

\* db.commit() of the rows the session holds.
db_commit(committed, pend) == [h \in Hours |-> committed[h] + pend[h]]

\* db.rollback(): the session's uncommitted rows are discarded.
db_rollback_keep(pend) == pend

db_rollback(pend) == NoRows

(***************************************************************************)
(* Initial state of the parse pipeline: confirm_upload has created the     *)
(* pending job for an uploaded log file and enqueued the task.             *)
(***************************************************************************)
ParseInit ==
    /\ events \in EventLists
    /\ jobExists \in BOOLEAN
    /\ lfExists \in BOOLEAN
    /\ siteExists \in BOOLEAN
    /\ job = [status |-> "pending", progress |-> 0, error_message |-> Null]
    /\ log_file = [status |-> "uploaded"]
    /\ aggregates = NoRows
    /\ findings = NoFindings
    /\ pc = "idle"
    /\ jobLoaded = FALSE
    /\ lfLoaded = FALSE
    /\ pending = NoRows
    /\ todo = <<>>
    /\ created_aggregates = <<>>
    /\ msg = "queued"
    /\ losses = 0
    /\ outcome = "none"

inputVars == <<events, jobExists, lfExists, siteExists>>

\* A worker takes the message and starts parse_log_file(job_id).
Deliver ==
    /\ msg = "queued"
    /\ msg' = "running"
    /\ pc' = "get_job"
    /\ jobLoaded' = FALSE
    /\ lfLoaded' = FALSE
    /\ pending' = NoRows
    /\ todo' = <<>>
    /\ created_aggregates' = <<>>
    /\ outcome' = "none"
    /\ UNCHANGED <<schedVars, errVars, extVars, inputVars, job, log_file, aggregates, findings, losses>>

\* A stage that only advances job.progress and commits.
Advance(from, to, p) ==
    /\ pc = from
    /\ job' = [job EXCEPT !.progress = p]
    /\ pc' = to
    /\ UNCHANGED <<schedVars, errVars, extVars, inputVars, log_file, aggregates, findings, jobLoaded, lfLoaded,
                   pending, todo, created_aggregates, msg, losses, outcome>>

\* The except clause: rollback, mark job and log file failed, commit, re-raise.
ExceptHandler ==
    /\ pending' = db_rollback(pending)
    /\ aggregates' = db_commit(aggregates, db_rollback(pending))
    /\ job' = IF jobLoaded
              THEN [job EXCEPT !.status = "failed", !.error_message = "error"]
              ELSE job
    /\ log_file' = IF lfLoaded THEN [log_file EXCEPT !.status = "failed"] ELSE log_file
    /\ pc' = "finished"
    /\ outcome' = "raised"
    /\ UNCHANGED <<schedVars, errVars, extVars, inputVars, findings, jobLoaded, lfLoaded, todo, created_aggregates,
                   msg, losses>>

GetJob ==
    /\ pc = "get_job"
    /\ IF jobExists
       THEN /\ job' = [job EXCEPT !.status = "processing", !.progress = 5]
            /\ jobLoaded' = TRUE
            /\ pc' = "get_log_file"
            /\ outcome' = outcome
       ELSE /\ pc' = "finished"
            /\ outcome' = "returned"
            /\ UNCHANGED <<job, jobLoaded>>
    /\ UNCHANGED <<schedVars, errVars, extVars, inputVars, log_file, aggregates, findings, lfLoaded, pending, todo,
                   created_aggregates, msg, losses>>

GetLogFile ==
    /\ pc = "get_log_file"
    /\ IF lfExists
       THEN /\ log_file' = [log_file EXCEPT !.status = "processing"]
            /\ lfLoaded' = TRUE
            /\ pc' = "get_site"
            /\ UNCHANGED <<job, outcome>>
       ELSE /\ job' = [job EXCEPT !.status = "failed",
                                  !.error_message = "Log file not found"]
            /\ pc' = "finished"
            /\ outcome' = "returned"
            /\ UNCHANGED <<log_file, lfLoaded>>
    /\ UNCHANGED <<schedVars, errVars, extVars, inputVars, aggregates, findings, jobLoaded, pending, todo,
                   created_aggregates, msg, losses>>

GetSite ==
    /\ pc = "get_site"
    /\ IF siteExists
       THEN Advance("get_site", "download", 10)
       ELSE ExceptHandler

Download == Advance("download", "parse", 20)

Parse == Advance("parse", "aggregate", 60)

Aggregate ==
    /\ pc = "aggregate"
    /\ job' = [job EXCEPT !.progress = 80]
    /\ todo' = hourly_buckets(events)
    /\ created_aggregates' = <<>>
    /\ pc' = "store_aggregates"
    /\ UNCHANGED <<schedVars, errVars, extVars, inputVars, log_file, aggregates, findings, jobLoaded, lfLoaded,
                   pending, msg, losses, outcome>>

AddAggregate ==
    /\ pc = "store_aggregates"
    /\ todo # <<>>
    /\ LET r == db_add(aggregates, pending, Head(todo))
       IN /\ aggregates' = r.committed
          /\ pending' = r.pend
    /\ created_aggregates' = Append(created_aggregates, Head(todo))
    /\ todo' = Tail(todo)
    /\ UNCHANGED <<schedVars, errVars, extVars, inputVars, job, log_file, findings, pc, jobLoaded, lfLoaded, msg,
                   losses, outcome>>

CommitAggregates ==
    /\ pc = "store_aggregates"
    /\ todo = <<>>
    /\ aggregates' = db_commit(aggregates, pending)
    /\ pending' = NoRows
    /\ pc' = "security"
    /\ UNCHANGED <<schedVars, errVars, extVars, inputVars, job, log_file, findings, jobLoaded, lfLoaded, todo,
                   created_aggregates, msg, losses, outcome>>

SecurityFindings ==
    /\ pc = "security"
    /\ findings' = [t \in FindingTypes |->
                      IF t \in detect_security_findings(events)
                      THEN findings[t] + 1 ELSE findings[t]]
    /\ pc' = "anomaly"
    /\ UNCHANGED <<schedVars, errVars, extVars, inputVars, job, log_file, aggregates, jobLoaded, lfLoaded, pending,
                   todo, created_aggregates, msg, losses, outcome>>

\* detect_anomalies over the site's baseline rows, which the environment decides.
AnomalyFindings ==
    /\ pc = "anomaly"
    /\ IF created_aggregates # <<>>
       THEN \E n \in 0..1 : findings' = [findings EXCEPT !["anomaly"] = @ + n]
       ELSE findings' = findings
    /\ pc' = "progress90"
    /\ UNCHANGED <<schedVars, errVars, extVars, inputVars, job, log_file, aggregates, jobLoaded, lfLoaded, pending,
                   todo, created_aggregates, msg, losses, outcome>>

Progress90 == Advance("progress90", "complete", 90)

Complete ==
    /\ pc = "complete"
    /\ job' = [job EXCEPT !.status = "completed", !.progress = 100]
    /\ log_file' = [log_file EXCEPT !.status = "processed"]
    /\ pc' = "finished"
    /\ outcome' = "returned"
    /\ UNCHANGED <<schedVars, errVars, extVars, inputVars, aggregates, findings, jobLoaded, lfLoaded, pending, todo,
                   created_aggregates, msg, losses>>

\* The statements of the try body that run once the job row is loaded.
TryBody == {"get_log_file", "get_site", "download", "parse", "aggregate",
            "store_aggregates", "security", "anomaly", "progress90", "complete"}

\* A step of the try body raises (storage, parser or database error).
Raise ==
    /\ pc \in TryBody
    /\ ExceptHandler

\* The task ended (returned or raised): the late acknowledgement.
Ack ==
    /\ pc = "finished"
    /\ msg' = "acked"
    /\ pc' = "idle"
    /\ UNCHANGED <<schedVars, errVars, extVars, inputVars, job, log_file, aggregates, findings, jobLoaded, lfLoaded,
                   pending, todo, created_aggregates, losses, outcome>>

\* The worker is lost before the acknowledgement: the session dies with it and
\* the message goes back to the queue (task_reject_on_worker_lost).
WorkerLost ==
    /\ msg = "running"
    /\ losses < MaxWorkerLosses
    /\ losses' = losses + 1
    /\ msg' = "queued"
    /\ pc' = "idle"
    /\ pending' = NoRows
    /\ UNCHANGED <<schedVars, errVars, extVars, inputVars, job, log_file, aggregates, findings, jobLoaded, lfLoaded,
                   todo, created_aggregates, outcome>>

ParseNext ==
    \/ Deliver
    \/ GetJob
    \/ GetLogFile
    \/ GetSite
    \/ Download
    \/ Parse
    \/ Aggregate
    \/ AddAggregate
    \/ CommitAggregates
    \/ SecurityFindings
    \/ AnomalyFindings
    \/ Progress90
    \/ Complete
    \/ Raise
    \/ Ack
    \/ WorkerLost

(***************************************************************************)
(* Parse pipeline: properties.                                             *)
(***************************************************************************)
JobTransitions == {<<"pending", "processing">>, <<"processing", "completed">>,
                   <<"processing", "failed">>}

\* C1: over any sequence of executions of parse_log_file for one job (a second
\* delivery included) the committed job.status changes only along
\* pending -> processing, processing -> completed, processing -> failed;
\* completed and failed are never left.
C1_JobStatusTransitions ==
    [][job'.status = job.status \/ <<job.status, job'.status>> \in JobTransitions]_vars

Milestones == {0, 5, 10, 20, 60, 80, 90, 100}

\* C2: the committed job.progress takes values among the milestones and never
\* decreases, over every execution history (success, failure, re-execution).
C2_ProgressMonotonic ==
    [][job'.progress \in Milestones /\ job'.progress >= job.progress]_vars

\* C3: when a step raises after the job row was loaded, the task ends with
\* job.status = failed and error_message set, log_file.status = failed when the
\* log file had been loaded, the uncommitted writes discarded (the committed
\* aggregates, findings and progress are those of the last commit), and the
\* exception re-raised.
C3_FailureCommitsFailed ==
    [][(outcome # "raised" /\ outcome' = "raised") =>
          /\ job'.status = "failed"
          /\ job'.error_message # Null
          /\ job'.progress = job.progress
          /\ (lfLoaded => log_file'.status = "failed")
          /\ (~lfLoaded => log_file' = log_file)
          /\ aggregates' = aggregates
          /\ findings' = findings
          /\ pending' = NoRows]_vars

\* A step raised in the middle of the aggregate loop, with rows added to the session.
C3_Witness ==
    /\ outcome = "raised"
    /\ pc = "finished"
    /\ lfLoaded
    /\ created_aggregates # <<>>
    /\ todo # <<>>
    /\ job.status = "failed"

\* C5: the aggregates table holds at most one row per (site, log_file, hour).
C5_OneRowPerHour == \A h \in Hours : aggregates[h] <= 1

VisibleHours == {h \in Hours : aggregates[h] > 0}

\* C6: a reader of the committed rows sees no aggregate row of the file or a row
\* for every hour of the file, never a strict non-empty subset.
C6_AllOrNothingVisible == VisibleHours = {} \/ VisibleHours = BucketHours(events)

\* The loop has added the first of two buckets: the reader still sees none.
C6_Witness ==
    /\ pc = "store_aggregates"
    /\ created_aggregates # <<>>
    /\ todo # <<>>
    /\ VisibleHours = {}

\* C7: a processed log file has an aggregate row iff the parser produced an event.
C7_ProcessedIffRows ==
    log_file.status = "processed" => ((VisibleHours # {}) <=> (Len(events) > 0))

C7_Witness ==
    /\ log_file.status = "processed"
    /\ Len(events) > 0
    /\ VisibleHours # {}

\* C8: a job that ends failed leaves none of its aggregates or findings persisted
\* (job outcome, findings and aggregates are persisted all or nothing).
C8_FailedLeavesNothing ==
    job.status = "failed" => (aggregates = NoRows /\ findings = NoFindings)

\* The rows one uninterrupted execution persists.
SingleRunAggregates == [h \in Hours |-> IF h \in BucketHours(events) THEN 1 ELSE 0]

SingleRunSecurityFindings(t) == IF t \in detect_security_findings(events) THEN 1 ELSE 0

\* C9: after a redelivery the persisted aggregates and security findings of a
\* completed job are those of one uninterrupted execution (no duplicated rows).
C9_RedeliveryIdempotent ==
    (job.status = "completed" /\ log_file.status = "processed") =>
        /\ aggregates = SingleRunAggregates
        /\ \A t \in RuleNames : findings[t] = SingleRunSecurityFindings(t)

(***************************************************************************)
(* Fetch scheduler: schedule_log_fetches on the beat, fetch_logs_from_source *)
(* on the workers.  Time is counted in seconds, one beat tick per minute.  *)
(***************************************************************************)
Sources == {"s1"}

\* IntervalSchedule.interval_minutes: Field(ge=5, le=10080)
MinIntervalMinutes == 5

\* schedule_config.get("interval_minutes", 60)
DefaultIntervalMinutes == 60

\* the cron fallback: (now - last_fetch_at).total_seconds() >= 3600
CronFallbackSeconds == 3600

SecondsPerMinute == 60

\* beat_schedule["schedule-log-fetches"]["schedule"]
BeatSeconds == 60

\* An optional value: None, or Some(v).
None == <<>>

Some(v) == <<v>>

Value(o) == o[1]

\* The clock when the model starts to observe: at the time of the recorded
\* last fetch, or 57.5 and 58 minutes after it.
StartTimes == {0, 3450, 3480}

\* schedule_type is a free string of the API (LogSourceCreate.schedule_type);
\* schedule_config is a free dict, with or without the key interval_minutes.
LogSourceRows ==
    [status : {"active", "paused", "error"},
     schedule_type : {"interval", "cron", "manual"},
     schedule_config : [interval_minutes : {None, Some(MinIntervalMinutes),
                                            Some(DefaultIntervalMinutes)}],
     last_fetch_at : {None, Some(0)},
     last_fetch_status : {Null}]

\* schedule_config.get("interval_minutes", 60)
interval_minutes(schedule_config) ==
    IF schedule_config.interval_minutes = None THEN DefaultIntervalMinutes
    ELSE Value(schedule_config.interval_minutes)

\* t and last_fetch_at are in seconds; total_seconds() / 60 >= interval_minutes
\* is a comparison of reals, hence of the seconds with 60 * interval_minutes.
_is_fetch_due_strict(log_source, t) ==
    IF log_source.last_fetch_at = None THEN TRUE
    ELSE IF log_source.schedule_type = "interval"
    THEN (t - Value(log_source.last_fetch_at))
            > interval_minutes(log_source.schedule_config) * SecondsPerMinute
    ELSE IF log_source.schedule_type = "cron"
    THEN (t - Value(log_source.last_fetch_at)) >= CronFallbackSeconds
    ELSE FALSE

_is_fetch_due(log_source, t) ==
    IF log_source.last_fetch_at = None THEN TRUE
    ELSE IF log_source.schedule_type = "interval"
    THEN (t - Value(log_source.last_fetch_at))
            >= interval_minutes(log_source.schedule_config) * SecondsPerMinute
    ELSE IF log_source.schedule_type = "cron"
    THEN (t - Value(log_source.last_fetch_at)) >= CronFallbackSeconds
    ELSE FALSE

SchedInit ==
    /\ now \in StartTimes
    /\ ticks = 0
    /\ log_sources \in [Sources -> LogSourceRows]
    /\ queued = [s \in Sources |-> 0]
    /\ running = [s \in Sources |-> 0]

\* One beat tick: BeatSeconds have passed and _schedule_fetches_async runs.
ScheduleFetches ==
    /\ ticks < MaxTime
    /\ ticks' = ticks + 1
    /\ now' = now + BeatSeconds
    /\ queued' = [s \in Sources |->
                    IF log_sources[s].status = "active" /\ _is_fetch_due(log_sources[s], now')
                    THEN queued[s] + 1
                    ELSE queued[s]]
    /\ UNCHANGED <<parseVars, errVars, extVars, log_sources, running>>

\* A worker takes a fetch message: _fetch_logs_async up to the first commit.
FetchStart(s) ==
    /\ queued[s] > 0
    /\ queued' = [queued EXCEPT ![s] = @ - 1]
    /\ running' = [running EXCEPT ![s] = @ + 1]
    /\ log_sources' = [log_sources EXCEPT ![s].last_fetch_at = Some(now)]
    /\ UNCHANGED <<parseVars, errVars, extVars, now, ticks>>

\* The fetch ends: last_fetch_status is committed (success or error).
FetchEnd(s, st) ==
    /\ running[s] > 0
    /\ running' = [running EXCEPT ![s] = @ - 1]
    /\ log_sources' = [log_sources EXCEPT ![s].last_fetch_status = st]
    /\ UNCHANGED <<parseVars, errVars, extVars, now, ticks, queued>>

SchedNext ==
    \/ ScheduleFetches
    \/ \E s \in Sources : FetchStart(s)
    \/ \E s \in Sources, st \in {"success", "error"} : FetchEnd(s, st)

\* C4: the scheduler never enqueues a fetch task for a source while an earlier
\* one for that source is outstanding (queued, or running without having set
\* last_fetch_status).
C4_NoOverlappingFetch == \A s \in Sources : queued[s] + running[s] <= 1

\* Due, as the contract states it: never fetched, or an interval schedule with
\* at least interval_minutes minutes elapsed, or a cron schedule with at least
\* one hour elapsed.
DueAsStated(log_source, t) ==
    \/ log_source.last_fetch_at = None
    \/ /\ log_source.last_fetch_at # None
       /\ \/ /\ log_source.schedule_type = "interval"
             /\ t - Value(log_source.last_fetch_at)
                   >= 60 * interval_minutes(log_source.schedule_config)
          \/ /\ log_source.schedule_type = "cron"
             /\ t - Value(log_source.last_fetch_at) >= 60 * 60

\* C13: on a scheduler tick a fetch task is enqueued for a source exactly when
\* the source is active and due, and exactly once; paused and error sources
\* are never enqueued.
C13_EnqueueIffActiveAndDue ==
    [][ticks' # ticks =>
         \A s \in Sources :
            queued'[s] = queued[s] +
               (IF log_sources[s].status = "active" /\ DueAsStated(log_sources[s], now')
                THEN 1 ELSE 0)]_vars

\* An interval source without interval_minutes (60 by default), last fetched at
\* 0 and observed from 57.5 minutes on, gets its one task at 60.5 minutes.
C13_Witness ==
    \E s \in Sources :
        /\ log_sources[s].status = "active"
        /\ log_sources[s].schedule_type = "interval"
        /\ log_sources[s].schedule_config.interval_minutes = None
        /\ log_sources[s].last_fetch_at = Some(0)
        /\ now = 3630
        /\ ticks = 3
        /\ queued[s] = 1

(***************************************************************************)
(* One execution of _fetch_logs_async, step by step, in its own session.   *)
(***************************************************************************)
\* LogSourceCreate.source_type is a free string: "ssh", "sftp", "s3", "gcs", "http"
SourceTypes == {"ssh", "s3", "http"}

\* What str(e) holds for the failures the execution can meet.
FetchErrors == {"unsupported source type", "fetch failed", "upload failed", "flush failed"}

FetchSourceRows ==
    [source_type : SourceTypes,
     status : {"active", "paused", "error"},
     schedule_type : {"interval", "cron"},
     last_fetch_at : {None, Some(0)},
     last_fetch_status : {Null},
     last_fetch_error : {Null}]

FetchInit ==
    /\ fsource \in FetchSourceRows
    /\ fetch = [pc |-> "idle", session |-> "active", files |-> 0, pending_files |-> 0,
                err |-> Null, outcome |-> "none", status0 |-> fsource.status,
                schedule0 |-> fsource.schedule_type]
    /\ fetched_files = 0
    /\ parse_queue = 0

\* get_fetcher: a fetcher for ssh, sftp, s3 and gcs, ValueError otherwise.
get_fetcher(source_type) == source_type \in {"ssh", "sftp", "s3", "gcs"}

\* The session's commit: the log source's attributes and the flushed LogFile
\* rows become visible.
FetchCommit(st, error) ==
    /\ fsource' = [fsource EXCEPT !.last_fetch_status = st, !.last_fetch_error = error]
    /\ fetched_files' = fetched_files + fetch.pending_files

\* lines 75-88: the source is loaded, last_fetch_at is set and committed.
FetchBegin ==
    /\ fetch.pc = "idle"
    /\ fsource' = [fsource EXCEPT !.last_fetch_at = Some(1)]
    /\ fetch' = [fetch EXCEPT !.pc = "get_fetcher"]
    /\ UNCHANGED <<coreVars, lateVars, redactVars, anomVars, secVars, aggVars, fetched_files, parse_queue>>

\* line 96
GetFetcher ==
    /\ fetch.pc = "get_fetcher"
    /\ IF get_fetcher(fsource.source_type)
       THEN fetch' = [fetch EXCEPT !.pc = "fetch_logs"]
       ELSE fetch' = [fetch EXCEPT !.pc = "except", !.err = "unsupported source type"]
    /\ UNCHANGED <<coreVars, lateVars, redactVars, anomVars, secVars, aggVars, fsource, fetched_files,
                   parse_queue>>

\* line 99 raises: authentication or connection failure, retries exhausted.
FetchLogsFails ==
    /\ fetch.pc = "fetch_logs"
    /\ fetch' = [fetch EXCEPT !.pc = "except", !.err = "fetch failed"]
    /\ UNCHANGED <<coreVars, lateVars, redactVars, anomVars, secVars, aggVars, fsource, fetched_files,
                   parse_queue>>

\* lines 99-112: fetch_logs returns k files; without files success is committed.
FetchLogs(k) ==
    /\ fetch.pc = "fetch_logs"
    /\ IF k = 0
       THEN /\ FetchCommit("success", Null)
            /\ fetch' = [fetch EXCEPT !.pc = "done", !.outcome = "returned"]
       ELSE /\ fetch' = [fetch EXCEPT !.pc = "store", !.files = k]
            /\ UNCHANGED <<fsource, fetched_files>>
    /\ UNCHANGED <<coreVars, lateVars, redactVars, anomVars, secVars, aggVars, parse_queue>>

\* lines 117-148, one file: upload, LogFile row, flush, parse task.
StoreFile ==
    /\ fetch.pc = "store"
    /\ fetch.files > 0
    /\ fetch' = [fetch EXCEPT !.files = @ - 1, !.pending_files = @ + 1]
    /\ parse_queue' = parse_queue + 1
    /\ UNCHANGED <<coreVars, lateVars, redactVars, anomVars, secVars, aggVars, fsource, fetched_files>>

\* line 130 raises: the object store refuses the upload.
UploadFails ==
    /\ fetch.pc = "store"
    /\ fetch.files > 0
    /\ fetch' = [fetch EXCEPT !.pc = "except", !.err = "upload failed"]
    /\ UNCHANGED <<coreVars, lateVars, redactVars, anomVars, secVars, aggVars, fsource, fetched_files,
                   parse_queue>>

\* line 142 raises: the database refuses the LogFile row (a filename longer
\* than the column, a site deleted meanwhile).  The failed flush rolls the
\* transaction back and leaves the session inactive until rollback().
FlushFails ==
    /\ fetch.pc = "store"
    /\ fetch.files > 0
    /\ fetch' = [fetch EXCEPT !.pc = "except", !.err = "flush failed",
                              !.session = "inactive", !.pending_files = 0]
    /\ UNCHANGED <<coreVars, lateVars, redactVars, anomVars, secVars, aggVars, fsource, fetched_files,
                   parse_queue>>

\* lines 150-161: every file is stored; success is committed.
FetchSucceeds ==
    /\ fetch.pc = "store"
    /\ fetch.files = 0
    /\ FetchCommit("success", Null)
    /\ fetch' = [fetch EXCEPT !.pc = "done", !.outcome = "returned", !.pending_files = 0]
    /\ UNCHANGED <<coreVars, lateVars, redactVars, anomVars, secVars, aggVars, parse_queue>>

\* lines 163-180: the handler records the error and commits; commit() on an
\* inactive session raises, and the exception leaves the function.
FetchExcept ==
    /\ fetch.pc = "except"
    /\ IF fetch.session = "active"
       THEN /\ FetchCommit("error", fetch.err)
            /\ fetch' = [fetch EXCEPT !.pc = "done", !.outcome = "returned",
                                      !.pending_files = 0]
       ELSE /\ fetch' = [fetch EXCEPT !.pc = "done", !.outcome = "raised"]
            /\ UNCHANGED <<fsource, fetched_files>>
    /\ UNCHANGED <<coreVars, lateVars, redactVars, anomVars, secVars, aggVars, parse_queue>>

FetchNext ==
    \/ FetchBegin
    \/ GetFetcher
    \/ FetchLogsFails
    \/ \E k \in 0..MaxFiles : FetchLogs(k)
    \/ StoreFile
    \/ UploadFails
    \/ FlushFails
    \/ FetchSucceeds
    \/ FetchExcept

\* C14: when a fetch fails for any reason (unsupported source type, failure
\* of the fetcher, failure while storing a file), _fetch_logs_async does not
\* raise: it commits last_fetch_status = error and last_fetch_error = the
\* message, and leaves the source's status and schedule unchanged.
C14_FailureRecordedNotRaised ==
    (fetch.pc = "done" /\ fetch.err # Null) =>
        /\ fetch.outcome = "returned"
        /\ fsource.last_fetch_status = "error"
        /\ fsource.last_fetch_error = fetch.err
        /\ fsource.status = fetch.status0
        /\ fsource.schedule_type = fetch.schedule0

(***************************************************************************)
(* Log source API: the routes that return a LogSource to the client.       *)
(***************************************************************************)
\* Keys a connection_config may hold (LogSourceCreate.connection_config is a
\* free dict): one harmless key and the four credentials.
ConfigKeys == {"host", "password", "private_key", "access_key_id", "secret_access_key"}

SensitiveKeys == {"password", "private_key", "access_key_id", "secret_access_key"}

\* A key that the dict does not hold, and a value in plaintext.
Absent == "<absent>"

Plaintext == "plaintext"

Redacted == "***REDACTED***"

ConnectionConfigs == [ConfigKeys -> {Absent, Plaintext}]

redact_sensitive_fields(config, source_type) ==
    [k \in ConfigKeys |->
        IF /\ source_type \in {"ssh", "sftp"}
           /\ k \in {"password", "private_key"}
           /\ config[k] # Absent
        THEN Redacted
        ELSE IF /\ source_type \in {"s3", "gcs"}
                /\ k \in {"access_key_id", "secret_access_key"}
                /\ config[k] # Absent
        THEN Redacted
        ELSE config[k]]

\* A response: the route that sent it and the connection_config of each
\* LogSource in its body.
Response(route, configs) == [route |-> route, connection_configs |-> configs]

RedactInit ==
    /\ stored_source = None
    /\ response = Response("none", <<>>)

\* POST: the row is committed and returned.
create_log_source(source_type, connection_config) ==
    /\ stored_source = None
    /\ stored_source' = Some([source_type |-> source_type,
                              connection_config |-> connection_config])
    /\ response' = Response("create",
                            <<redact_sensitive_fields(connection_config, source_type)>>)
    /\ UNCHANGED <<coreVars, lateVars, fetchVars, anomVars, secVars, aggVars>>

\* GET of the site's sources.
list_log_sources ==
    /\ response' = Response("list",
                       IF stored_source = None THEN <<>>
                       ELSE <<redact_sensitive_fields(Value(stored_source).connection_config,
                                                      Value(stored_source).source_type)>>)
    /\ UNCHANGED <<coreVars, lateVars, fetchVars, anomVars, secVars, aggVars, stored_source>>

\* GET of one source.
get_log_source ==
    /\ stored_source # None
    /\ response' = Response("get",
                       <<redact_sensitive_fields(Value(stored_source).connection_config,
                                                 Value(stored_source).source_type)>>)
    /\ UNCHANGED <<coreVars, lateVars, fetchVars, anomVars, secVars, aggVars, stored_source>>

\* PUT: connection_config is replaced when the body holds one; source_type stays.
update_log_source(connection_config) ==
    /\ stored_source # None
    /\ LET row == [Value(stored_source) EXCEPT !.connection_config = connection_config]
       IN /\ stored_source' = Some(row)
          /\ response' = Response("update",
                  <<redact_sensitive_fields(row.connection_config, row.source_type)>>)
    /\ UNCHANGED <<coreVars, lateVars, fetchVars, anomVars, secVars, aggVars>>

\* DELETE: 204 without a body.
delete_log_source ==
    /\ stored_source # None
    /\ stored_source' = None
    /\ response' = Response("delete", <<>>)
    /\ UNCHANGED <<coreVars, lateVars, fetchVars, anomVars, secVars, aggVars>>

RedactNext ==
    \/ \E st \in SourceTypes, cfg \in ConnectionConfigs : create_log_source(st, cfg)
    \/ list_log_sources
    \/ get_log_source
    \/ \E cfg \in ConnectionConfigs : update_log_source(cfg)
    \/ delete_log_source

\* C15: no representation of a LogSource sent to a client (list, get, create,
\* update) shows password, private_key, access_key_id or secret_access_key in
\* plaintext, whatever the source_type: each is replaced by ***REDACTED***.
C15_CredentialsRedacted ==
    \A i \in 1..Len(response.connection_configs) : \A k \in SensitiveKeys :
        response.connection_configs[i][k] \in {Absent, Redacted}

(***************************************************************************)
(* Anomaly detector: detect_anomalies over hourly snapshots.               *)
(***************************************************************************)
\* detect_anomalies(..., baseline_days=7, ..., z_threshold=3.0, new_path_min_count=20)
BaselineWindowHours == 168

ZThreshold == 3

NewPathMinCount == 20

AnomHours == {0, 1}

\* (requests_count, status_5xx) of a snapshot: error rates 0, 1/2 and 1.
RequestCounts == {<<0, 0>>, <<1, 0>>, <<1, 1>>, <<2, 0>>, <<2, 1>>}

\* Every error rate of the model is a multiple of 1 / RateScale.
RateScale == 2

TopPaths == {<<>>, <<[path |-> "/new", count |-> NewPathMinCount]>>}

AggregateSnapshot ==
    {[hour_bucket |-> h, requests_count |-> rc[1], status_5xx |-> rc[2],
      unique_ips |-> IF rc[1] > 0 THEN 1 ELSE 0, top_paths |-> tp] :
        h \in AnomHours, rc \in RequestCounts, tp \in TopPaths}

AnomInit ==
    /\ site_aggregates = <<>>
    /\ anomaly_call = None

\* status_5xx / requests, in units of 1 / RateScale.
_safe_error_rate(status_5xx, requests) ==
    IF requests <= 0 THEN 0 ELSE (status_5xx * RateScale) \div requests

RECURSIVE SumOf(_)
SumOf(values) ==
    IF values = <<>> THEN 0 ELSE Head(values) + SumOf(Tail(values))

SquaresOf(values) == [i \in 1..Len(values) |-> values[i] * values[i]]

\* (value - mean) / pstdev as the pair num, den2 with z = num / sqrt(den2), both
\* multiplied by the number of values: num = n * value - sum and
\* den2 = n * sum of squares - sum ^ 2 (n ^ 2 times the population variance).
_zscore_any_std(value, baseline_values) ==
    IF Len(baseline_values) < 2 THEN None
    ELSE Some([num |-> Len(baseline_values) * value - SumOf(baseline_values),
               den2 |-> Len(baseline_values) * SumOf(SquaresOf(baseline_values))
                          - SumOf(baseline_values) * SumOf(baseline_values)])

_zscore(value, baseline_values) ==
    LET n == Len(baseline_values)
        sum == SumOf(baseline_values)
        den2 == n * SumOf(SquaresOf(baseline_values)) - sum * sum
    IN IF n < 2 THEN None
       ELSE IF den2 = 0 THEN None
       ELSE Some([num |-> n * value - sum, den2 |-> den2])

\* z is not None and z >= z_threshold
AtLeastThreshold(z) ==
    /\ z # None
    /\ Value(z).num >= 0
    /\ Value(z).num * Value(z).num >= ZThreshold * ZThreshold * Value(z).den2

\* The baseline of a target: the site's snapshots of the window before its hour.
BaselineOf(current) ==
    SelectSeq(site_aggregates,
              LAMBDA agg : /\ current.hour_bucket - BaselineWindowHours <= agg.hour_bucket
                           /\ agg.hour_bucket < current.hour_bucket)

\* The paths of the top_paths of the baseline.
BaselinePaths(baseline) ==
    UNION {{baseline[i].top_paths[j].path : j \in 1..Len(baseline[i].top_paths)} :
             i \in 1..Len(baseline)}

\* The body of the loop of detect_anomalies for one target: the finding types.
detect_anomalies(current, min_baseline_hours) ==
    LET baseline == BaselineOf(current)
        baseline_requests == [i \in 1..Len(baseline) |-> baseline[i].requests_count]
        baseline_error_rates ==
            [i \in 1..Len(baseline) |->
                _safe_error_rate(baseline[i].status_5xx, baseline[i].requests_count)]
        current_error_rate == _safe_error_rate(current.status_5xx, current.requests_count)
        request_z == _zscore(current.requests_count, baseline_requests)
        error_z == _zscore(current_error_rate, baseline_error_rates)
    IN IF Len(baseline) < min_baseline_hours THEN {}
       ELSE (IF AtLeastThreshold(request_z) THEN {"traffic_spike"} ELSE {})
            \cup (IF AtLeastThreshold(error_z) THEN {"error_spike"} ELSE {})
            \cup {"new_endpoint_burst" : i \in
                    {j \in 1..Len(current.top_paths) :
                        /\ current.top_paths[j].path \notin BaselinePaths(baseline)
                        /\ current.top_paths[j].count >= NewPathMinCount}}

\* An aggregate of the site is stored; the query returns them by hour ascending.
AddSnapshot(a) ==
    /\ Len(site_aggregates) < MaxSnapshots
    /\ site_aggregates # <<>> => site_aggregates[Len(site_aggregates)].hour_bucket <= a.hour_bucket
    /\ site_aggregates' = Append(site_aggregates, a)
    /\ UNCHANGED <<coreVars, lateVars, fetchVars, redactVars, secVars, aggVars, anomaly_call>>

\* detect_anomalies(site_snapshots, target_snapshots) for the file of one hour:
\* the target is one of the site's snapshots.
DetectAnomalies(i, min_baseline_hours) ==
    /\ i \in 1..Len(site_aggregates)
    /\ anomaly_call' = Some([target |-> i, min_baseline_hours |-> min_baseline_hours,
                             findings |-> detect_anomalies(site_aggregates[i],
                                                           min_baseline_hours)])
    /\ UNCHANGED <<coreVars, lateVars, fetchVars, redactVars, secVars, aggVars, site_aggregates>>

AnomNext ==
    \/ \E a \in AggregateSnapshot : AddSnapshot(a)
    \/ \E i \in 1..MaxSnapshots, m \in 1..2 : DetectAnomalies(i, m)

\* The baseline set B of the last call, as the contract defines it.
StatedB ==
    LET H == site_aggregates[Value(anomaly_call).target].hour_bucket
    IN {i \in 1..Len(site_aggregates) :
          /\ site_aggregates[i].hour_bucket >= H - 7 * 24
          /\ site_aggregates[i].hour_bucket < H}

EqualRequests ==
    \A i, j \in StatedB :
        site_aggregates[i].requests_count = site_aggregates[j].requests_count

\* Equal error rates a / r, with 0 for r = 0, compared by cross multiplication.
EqualErrorRates ==
    \A i, j \in StatedB :
        LET a == site_aggregates[i]
            b == site_aggregates[j]
            ra == IF a.requests_count = 0 THEN <<0, 1>> ELSE <<a.status_5xx, a.requests_count>>
            rb == IF b.requests_count = 0 THEN <<0, 1>> ELSE <<b.status_5xx, b.requests_count>>
        IN ra[1] * rb[2] = rb[1] * ra[2]

EqualUniqueIps ==
    \A i, j \in StatedB : site_aggregates[i].unique_ips = site_aggregates[j].unique_ips

\* C16 as stated: no finding of any type for a target hour whose baseline has
\* fewer than min_baseline_hours snapshots, and none for a target hour whose
\* baseline standard deviation is 0 (all baseline values equal).
C16_NoFindingWithoutBaseline ==
    anomaly_call # None =>
        /\ Cardinality(StatedB) < Value(anomaly_call).min_baseline_hours
              => Value(anomaly_call).findings = {}
        /\ (EqualRequests /\ EqualErrorRates /\ EqualUniqueIps)
              => Value(anomaly_call).findings = {}

\* C16 amended: no finding of any type when the baseline has fewer than
\* min_baseline_hours snapshots; no traffic_spike when the baseline request
\* counts are all equal and no error_spike when the baseline error rates are
\* all equal (a new_endpoint_burst does not depend on the deviation).
C16_NoSpikeWithoutDeviation ==
    anomaly_call # None =>
        /\ Cardinality(StatedB) < Value(anomaly_call).min_baseline_hours
              => Value(anomaly_call).findings = {}
        /\ EqualRequests => "traffic_spike" \notin Value(anomaly_call).findings
        /\ EqualErrorRates => "error_spike" \notin Value(anomaly_call).findings

\* A call with two baseline snapshots of equal values and a target holding a
\* new path: the new_endpoint_burst is the only finding.
C16_Witness ==
    /\ anomaly_call # None
    /\ Cardinality(StatedB) = 2
    /\ Value(anomaly_call).min_baseline_hours = 2
    /\ EqualRequests /\ EqualErrorRates /\ EqualUniqueIps
    /\ site_aggregates[Value(anomaly_call).target].requests_count = 2
    /\ Value(anomaly_call).findings = {"new_endpoint_burst"}

(***************************************************************************)
(* Security detector: per-event rules and burst rules over parsed events.  *)
(***************************************************************************)
\* _build_evidence(events, limit=5)
EvidenceLimit == 5

\* Timestamps of the events, in minutes.
SecTimes == 0..3

\* The events handed to a burst rule: 404 responses of one address at any
\* minute, of a client without address, and a 200 response.
BurstEvents ==
    {[ip |-> "ip1", timestamp |-> t, path |-> "/index.html", status |-> 404] : t \in SecTimes}
      \cup {[ip |-> "", timestamp |-> 0, path |-> "/index.html", status |-> 404],
            [ip |-> "ip1", timestamp |-> 0, path |-> "/index.html", status |-> 200]}

\* The events handed to the per-event rules: probes of one address at two
\* minutes, a probe matching two rules, a probe without address, a plain request.
RuleEvents ==
    {[ip |-> "ip1", timestamp |-> t, path |-> "/.env", status |-> 200] : t \in {0, 1}}
      \cup {[ip |-> "ip1", timestamp |-> 0, path |-> "/../.env", status |-> 200],
            [ip |-> "", timestamp |-> 0, path |-> "/.env", status |-> 200],
            [ip |-> "ip1", timestamp |-> 1, path |-> "/index.html", status |-> 200]}

\* Two of DEFAULT_RULES, in their order.
EventRules == <<"path_traversal", "env_file_access">>

\* AggregateRule(name, status_predicate, threshold, window_minutes) of burst_404,
\* with thresholds and windows the bounded inputs can reach.
BurstRules == [name : {"burst_404"}, threshold : {2, 3}, window_minutes : {1, 2}]

SecIps == {"ip1", "unknown"}

\* Rule.is_match: re.search(pattern, event.path)
is_match(rule_name, event) ==
    \/ rule_name = "path_traversal" /\ event.path \in {"/../etc/passwd", "/../.env"}
    \/ rule_name = "env_file_access" /\ event.path \in {"/.env", "/../.env"}

\* AggregateRule.status_predicate of burst_404
status_predicate(rule, event) == event.status = 404

\* ip = event.ip or "unknown"
SourceIp(event) == IF event.ip = "" THEN "unknown" ELSE event.ip

\* The parser numbers the events by their line.
Numbered(evs) ==
    [i \in 1..Len(evs) |->
        [ip |-> evs[i].ip, timestamp |-> evs[i].timestamp, path |-> evs[i].path,
         status |-> evs[i].status, line_number |-> i]]

RECURSIVE InsertByTimestamp(_, _)
InsertByTimestamp(e, ordered) ==
    IF ordered = <<>> THEN <<e>>
    ELSE IF Head(ordered).timestamp <= e.timestamp
    THEN <<Head(ordered)>> \o InsertByTimestamp(e, Tail(ordered))
    ELSE <<e>> \o ordered

\* sorted(events, key=lambda e: e.timestamp): a stable sort.
RECURSIVE SortedByTimestamp(_)
SortedByTimestamp(evs) ==
    IF evs = <<>> THEN <<>>
    ELSE InsertByTimestamp(evs[Len(evs)], SortedByTimestamp(SubSeq(evs, 1, Len(evs) - 1)))

_build_evidence_unsorted(evs) ==
    [i \in 1..(IF Len(evs) < EvidenceLimit THEN Len(evs) ELSE EvidenceLimit) |->
        evs[i].line_number]

_build_evidence(evs) ==
    LET ordered == SortedByTimestamp(evs)
    IN [i \in 1..(IF Len(evs) < EvidenceLimit THEN Len(evs) ELSE EvidenceLimit) |->
           ordered[i].line_number]

_build_metadata(evs, ip) ==
    LET ordered == SortedByTimestamp(evs)
    IN [source_ip |-> ip, count |-> Len(evs),
        first_seen |-> ordered[1].timestamp, last_seen |-> ordered[Len(ordered)].timestamp]

FindingCandidate(finding_type, evs, ip) ==
    [finding_type |-> finding_type, evidence |-> _build_evidence(evs),
     metadata |-> _build_metadata(evs, ip)]

\* The keys of a dict in insertion order: keys, then those of new not yet in it.
RECURSIVE AppendNew(_, _)
AppendNew(keys, new) ==
    IF new = <<>> THEN keys
    ELSE IF \E i \in 1..Len(keys) : keys[i] = Head(new)
    THEN AppendNew(keys, Tail(new))
    ELSE AppendNew(Append(keys, Head(new)), Tail(new))

\* The (rule name, ip) keys of `matches`, in the order the loops insert them.
RECURSIVE MatchKeys(_)
MatchKeys(evs) ==
    IF evs = <<>> THEN <<>>
    ELSE LET e == evs[Len(evs)]
             matching == SelectSeq(EventRules, LAMBDA r : is_match(r, e))
         IN AppendNew(MatchKeys(SubSeq(evs, 1, Len(evs) - 1)),
                      [i \in 1..Len(matching) |-> <<matching[i], SourceIp(e)>>])

_detect_event_rules(evs) ==
    LET keys == MatchKeys(evs)
    IN [k \in 1..Len(keys) |->
           FindingCandidate(keys[k][1],
               SelectSeq(evs, LAMBDA e : is_match(keys[k][1], e) /\ SourceIp(e) = keys[k][2]),
               keys[k][2])]

\* The keys of events_by_ip, in insertion order.
RECURSIVE BurstIps(_, _)
BurstIps(evs, rule) ==
    IF evs = <<>> THEN <<>>
    ELSE LET e == evs[Len(evs)]
         IN AppendNew(BurstIps(SubSeq(evs, 1, Len(evs) - 1), rule),
                      IF status_predicate(rule, e) THEN <<SourceIp(e)>> ELSE <<>>)

\* while ordered[end].timestamp - ordered[start].timestamp > window: start += 1
RECURSIVE AdvanceStartStrict(_, _, _, _)
AdvanceStartStrict(ordered, start, end, window) ==
    IF ordered[end].timestamp - ordered[start].timestamp >= window /\ start < end
    THEN AdvanceStartStrict(ordered, start + 1, end, window)
    ELSE start

RECURSIVE AdvanceStart(_, _, _, _)
AdvanceStart(ordered, start, end, window) ==
    IF ordered[end].timestamp - ordered[start].timestamp > window
    THEN AdvanceStart(ordered, start + 1, end, window)
    ELSE start

\* The loop over end: the largest window of at least threshold events.
RECURSIVE BestWindow(_, _, _, _, _)
BestWindow(ordered, end, start, best_window, rule) ==
    IF end > Len(ordered) THEN best_window
    ELSE LET s == AdvanceStart(ordered, start, end, rule.window_minutes)
             current_window == SubSeq(ordered, s, end)
         IN BestWindow(ordered, end + 1, s,
                       IF /\ Len(current_window) >= rule.threshold
                          /\ Len(current_window) > Len(best_window)
                       THEN current_window ELSE best_window,
                       rule)

_detect_burst_rule(evs, rule) ==
    LET ips == BurstIps(evs, rule)
        best(ip) == BestWindow(
                        SortedByTimestamp(SelectSeq(evs,
                            LAMBDA e : status_predicate(rule, e) /\ SourceIp(e) = ip)),
                        1, 1, <<>>, rule)
        found == SelectSeq(ips, LAMBDA ip : best(ip) # <<>>)
    IN [k \in 1..Len(found) |-> FindingCandidate(rule.name, best(found[k]), found[k])]

SecInit ==
    /\ sec_events = <<>>
    /\ sec_findings = None

\* The parser yields one more event with a 404 or 200 response.
AddBurstEvent(e) ==
    /\ Len(sec_events) < MaxBurstEvents
    /\ sec_events' = Append(sec_events, e)
    /\ sec_findings' = None
    /\ UNCHANGED <<coreVars, lateVars, fetchVars, redactVars, anomVars, aggVars>>

\* findings.extend(_detect_burst_rule(events, rule))
DetectBurstRule(rule) ==
    /\ sec_findings' = Some([rule |-> rule,
                             findings |-> _detect_burst_rule(Numbered(sec_events), rule)])
    /\ UNCHANGED <<coreVars, lateVars, fetchVars, redactVars, anomVars, aggVars, sec_events>>

BurstNext ==
    \/ \E e \in BurstEvents : AddBurstEvent(e)
    \/ \E rule \in BurstRules : DetectBurstRule(rule)

\* The parser yields one more event for the per-event rules.
AddRuleEvent(e) ==
    /\ Len(sec_events) < MaxRuleEvents
    /\ sec_events' = Append(sec_events, e)
    /\ sec_findings' = None
    /\ UNCHANGED <<coreVars, lateVars, fetchVars, redactVars, anomVars, aggVars>>

\* findings = _detect_event_rules(events, rules)
DetectEventRules ==
    /\ sec_findings' = Some([rule |-> [name |-> "event_rules", threshold |-> 1,
                                       window_minutes |-> 0],
                             findings |-> _detect_event_rules(Numbered(sec_events))])
    /\ UNCHANGED <<coreVars, lateVars, fetchVars, redactVars, anomVars, aggVars, sec_events>>

EventRuleNext ==
    \/ \E e \in RuleEvents : AddRuleEvent(e)
    \/ DetectEventRules

\* The findings of the last detection.
LastFindings == Value(sec_findings).findings

\* The lines of the events of ip that the burst rule of the last detection matches.
BurstMatches(ip) ==
    {i \in 1..Len(sec_events) : sec_events[i].status = 404 /\ SourceIp(sec_events[i]) = ip}

\* The number of matching events of ip in the window [a, a + W].
InWindow(ip, a) ==
    Cardinality({i \in BurstMatches(ip) :
                    /\ a <= sec_events[i].timestamp
                    /\ sec_events[i].timestamp <= a + Value(sec_findings).rule.window_minutes})

MaxInWindow(ip) ==
    CHOOSE n \in 0..Len(sec_events) :
        /\ \E a \in SecTimes : InWindow(ip, a) = n
        /\ \A a \in SecTimes : InWindow(ip, a) <= n

\* C17: for a burst rule (N, W) and an IP, a finding is emitted if and only if
\* some window of width W holds at least N matching events of the IP; there is
\* at most one finding per (rule, IP), and its metadata.count is the largest
\* number of matching events in any window of width W.
C17_BurstFindings ==
    sec_findings # None =>
        \A ip \in SecIps :
            LET of_ip == {k \in 1..Len(LastFindings) :
                            LastFindings[k].metadata.source_ip = ip}
            IN /\ Cardinality(of_ip) =
                     (IF MaxInWindow(ip) >= Value(sec_findings).rule.threshold THEN 1 ELSE 0)
               /\ \A k \in of_ip :
                     /\ LastFindings[k].finding_type = Value(sec_findings).rule.name
                     /\ LastFindings[k].metadata.count = MaxInWindow(ip)

\* Events given out of order, two of them exactly W apart: one finding of count 3.
C17_Witness ==
    /\ sec_findings # None
    /\ Value(sec_findings).rule.threshold = 3
    /\ Value(sec_findings).rule.window_minutes = 1
    /\ Len(sec_events) = 4
    /\ sec_events[1].timestamp = 1 /\ sec_events[2].timestamp = 0
    /\ Len(LastFindings) = 1
    /\ LastFindings[1].metadata.source_ip = "ip1"
    /\ LastFindings[1].metadata.count = 3

\* The lines of the events of ip that a per-event rule matches.
RuleMatchLines(rule_name, ip) ==
    {i \in 1..Len(sec_events) :
        /\ \/ rule_name = "path_traversal" /\ sec_events[i].path = "/../.env"
           \/ rule_name = "env_file_access" /\ sec_events[i].path \in {"/.env", "/../.env"}
        /\ SourceIp(sec_events[i]) = ip}

\* C18: the per-event rules emit exactly one finding per (rule_name, source_ip)
\* with at least one matching event and none otherwise; metadata.count is the
\* number of matching events; the evidence holds min(5, count) entries, the
\* earliest by timestamp.
C18_EventRuleFindings ==
    sec_findings # None =>
        \A rule_name \in {"path_traversal", "env_file_access"}, ip \in SecIps :
            LET M == RuleMatchLines(rule_name, ip)
                of_key == {k \in 1..Len(LastFindings) :
                             /\ LastFindings[k].finding_type = rule_name
                             /\ LastFindings[k].metadata.source_ip = ip}
            IN /\ Cardinality(of_key) = (IF M # {} THEN 1 ELSE 0)
               /\ \A k \in of_key :
                     LET ev == LastFindings[k].evidence
                         E == {ev[j] : j \in 1..Len(ev)}
                     IN /\ LastFindings[k].metadata.count = Cardinality(M)
                        /\ Len(ev) = (IF Cardinality(M) < 5 THEN Cardinality(M) ELSE 5)
                        /\ Cardinality(E) = Len(ev)
                        /\ E \subseteq M
                        /\ \A i \in E, j \in M \ E :
                              sec_events[i].timestamp <= sec_events[j].timestamp

\* Six probes of one address, the first of them the latest by timestamp: the
\* finding counts 6 and its evidence holds the 5 earliest, without line 1.
C18_Witness ==
    /\ sec_findings # None
    /\ Len(sec_events) = 6
    /\ \A i \in 1..6 : sec_events[i].path = "/.env" /\ sec_events[i].ip = "ip1"
    /\ sec_events[1].timestamp = 1
    /\ \A i \in 2..6 : sec_events[i].timestamp = 0
    /\ Len(LastFindings) = 1
    /\ LastFindings[1].metadata.count = 6
    /\ LastFindings[1].evidence = <<2, 3, 4, 5, 6>>

(***************************************************************************)
(* Aggregator: hourly buckets and overall statistics of the parsed events. *)
(***************************************************************************)
StatusClasses == {"2xx", "3xx", "4xx", "5xx", "other"}

\* Status codes on both sides of the class limits; the parsers accept any \d+.
Statuses == {199, 200, 301, 404, 503, 600}

\* The events handed to the aggregator; timestamps are UTC (hour, minute).
AggEvents ==
    {[timestamp |-> [hour |-> 0, minute |-> 30], status |-> s] : s \in Statuses}
      \cup {[timestamp |-> [hour |-> 1, minute |-> 0], status |-> s] : s \in {200, 600}}
      \cup {[timestamp |-> [hour |-> 0, minute |-> 0], status |-> 404]}

\* LogEvent.status_class
status_class_closed(status) ==
    IF 200 <= status /\ status < 300 THEN "2xx"
    ELSE IF 300 <= status /\ status < 400 THEN "3xx"
    ELSE IF 400 <= status /\ status < 500 THEN "4xx"
    ELSE IF 500 <= status /\ status <= 600 THEN "5xx"
    ELSE "other"

status_class(status) ==
    IF 200 <= status /\ status < 300 THEN "2xx"
    ELSE IF 300 <= status /\ status < 400 THEN "3xx"
    ELSE IF 400 <= status /\ status < 500 THEN "4xx"
    ELSE IF 500 <= status /\ status < 600 THEN "5xx"
    ELSE "other"

_get_hour_key_exact(timestamp) == timestamp

\* timestamp.replace(minute=0, second=0, microsecond=0)
_get_hour_key(timestamp) == [timestamp EXCEPT !.minute = 0]

\* HourlyBucket(hour=hour_key)
HourlyBucket(hour) ==
    [hour |-> hour, requests_count |-> 0,
     status_2xx |-> 0, status_3xx |-> 0, status_4xx |-> 0, status_5xx |-> 0]

\* AggregationResult(): hourly_buckets refers to the buckets of _hourly by key.
AggregationResult ==
    [hourly_buckets |-> <<>>, total_requests |-> 0,
     status_breakdown |-> [c \in StatusClasses |-> 0]]

\* Aggregator.__init__
AggInit ==
    /\ agg_events = <<>>
    /\ _hourly = {}
    /\ _result = AggregationResult

\* The bucket after one more event of the given status class.
Counted(bucket, class) ==
    [bucket EXCEPT
        !.requests_count = @ + 1,
        !.status_2xx = IF class = "2xx" THEN @ + 1 ELSE @,
        !.status_3xx = IF class = "3xx" THEN @ + 1 ELSE @,
        !.status_4xx = IF class = "4xx" THEN @ + 1 ELSE @,
        !.status_5xx = IF class = "5xx" THEN @ + 1 ELSE @]

\* Aggregator.add_event(event)
add_event(event) ==
    /\ Len(agg_events) < MaxAggEvents
    /\ agg_events' = Append(agg_events, event)
    /\ LET hour_key == _get_hour_key(event.timestamp)
           present == {b \in _hourly : b.hour = hour_key}
           bucket == IF present = {} THEN HourlyBucket(hour_key)
                     ELSE CHOOSE b \in present : TRUE
           class == status_class(event.status)
       IN /\ _hourly' = (_hourly \ {bucket}) \cup {Counted(bucket, class)}
          /\ _result' = [_result EXCEPT
                            !.total_requests = @ + 1,
                            !.status_breakdown[class] = @ + 1]
    /\ UNCHANGED <<coreVars, lateVars, fetchVars, redactVars, anomVars, secVars>>

\* The hours of the buckets in ascending order.
RECURSIVE SortedHours(_)
SortedHours(hours) ==
    IF hours = {} THEN <<>>
    ELSE LET first == CHOOSE h \in hours : \A g \in hours : h.hour <= g.hour
         IN <<first>> \o SortedHours(hours \ {first})

\* Aggregator.get_result()
get_result ==
    /\ _result' = [_result EXCEPT
                      !.hourly_buckets = SortedHours({b.hour : b \in _hourly})]
    /\ UNCHANGED <<coreVars, lateVars, fetchVars, redactVars, anomVars, secVars, agg_events, _hourly>>

AggNext ==
    \/ \E event \in AggEvents : add_event(event)
    \/ get_result

\* The events added so far whose timestamp falls in the hour.
EventsOfHour(hour) ==
    {i \in 1..Len(agg_events) :
        /\ agg_events[i].timestamp.hour = hour.hour
        /\ hour.minute = 0}

RECURSIVE SumRequests(_)
SumRequests(buckets) ==
    IF buckets = {} THEN 0
    ELSE LET b == CHOOSE x \in buckets : TRUE
         IN b.requests_count + SumRequests(buckets \ {b})

\* C19: after add_event has been applied to any sequence of events, every event
\* is counted in exactly one hourly bucket, the one whose hour is the event's
\* timestamp truncated to the hour; bucket hours are pairwise distinct, and the
\* requests_count of all buckets sum to total_requests, the number of events added.
C19_EveryEventInOneBucket ==
    /\ \A b \in _hourly : b.requests_count = Cardinality(EventsOfHour(b.hour))
    /\ \A i \in 1..Len(agg_events) :
          Cardinality({b \in _hourly : i \in EventsOfHour(b.hour)}) = 1
    /\ \A b1, b2 \in _hourly : b1.hour = b2.hour => b1 = b2
    /\ SumRequests(_hourly) = _result.total_requests
    /\ _result.total_requests = Len(agg_events)

\* Two events of one hour at different minutes and one of the next hour: two
\* buckets, listed by get_result in order.
C19_Witness ==
    /\ Len(agg_events) = 3
    /\ agg_events[1].timestamp = [hour |-> 1, minute |-> 0]
    /\ agg_events[2].timestamp = [hour |-> 0, minute |-> 30]
    /\ agg_events[3].timestamp = [hour |-> 0, minute |-> 0]
    /\ Cardinality(_hourly) = 2
    /\ \E b \in _hourly : b.hour = [hour |-> 0, minute |-> 0] /\ b.requests_count = 2
    /\ _result.hourly_buckets = <<[hour |-> 0, minute |-> 0], [hour |-> 1, minute |-> 0]>>

\* The events of the hour whose status lies in [lo, hi).
InRange(hour, lo, hi) ==
    Cardinality({i \in EventsOfHour(hour) :
                    lo <= agg_events[i].status /\ agg_events[i].status < hi})

\* The events of the hour whose status lies outside [200, 600).
Other(hour) ==
    Cardinality({i \in EventsOfHour(hour) :
                    agg_events[i].status < 200 \/ agg_events[i].status >= 600})

\* C20: every event added increments exactly one status class among
\* 2xx/3xx/4xx/5xx/other, so every bucket satisfies requests_count = status_2xx +
\* status_3xx + status_4xx + status_5xx + other, with other >= 0 the number of
\* events whose status lies outside [200, 600), and the global status breakdown
\* sums to total_requests.
C20_StatusClassesPartition ==
    /\ \A b \in _hourly :
          /\ b.status_2xx = InRange(b.hour, 200, 300)
          /\ b.status_3xx = InRange(b.hour, 300, 400)
          /\ b.status_4xx = InRange(b.hour, 400, 500)
          /\ b.status_5xx = InRange(b.hour, 500, 600)
          /\ b.requests_count - (b.status_2xx + b.status_3xx + b.status_4xx + b.status_5xx)
                = Other(b.hour)
          /\ Other(b.hour) >= 0
    /\ _result.status_breakdown["2xx"] + _result.status_breakdown["3xx"]
          + _result.status_breakdown["4xx"] + _result.status_breakdown["5xx"]
          + _result.status_breakdown["other"] = _result.total_requests
    /\ _result.status_breakdown["other"] =
          Cardinality({i \in 1..Len(agg_events) :
                          agg_events[i].status < 200 \/ agg_events[i].status >= 600})

\* One bucket with a 2xx, a 5xx and two events outside [200, 600).
C20_Witness ==
    /\ \E b \in _hourly :
          /\ b.requests_count = 4
          /\ b.status_2xx = 1
          /\ b.status_5xx = 1
          /\ b.status_3xx = 0 /\ b.status_4xx = 0
    /\ \E i, j \in 1..Len(agg_events) :
          agg_events[i].status = 199 /\ agg_events[j].status = 600
    /\ _result.status_breakdown["other"] = 2

(***************************************************************************)
(* Parser.parse_stream: the loop over the lines of one file.               *)
(***************************************************************************)
\* ParseResult.add_error keeps the first 10 errors.
ErrorSampleLimit == 10

\* What a line is to the parser: blank after strip(), a # comment, a line in
\* the combined format, a line parse_line rejects with ValueError, and a line
\* in the combined format whose timestamp leaves the datetime range when
\* converted to UTC (year 1 with a positive offset, year 9999 with a negative one).
LineKinds == {"blank", "comment", "good", "bad", "out_of_range"}

\* ParseResult()
ParseResult ==
    [total_lines |-> 0, parsed_lines |-> 0, failed_lines |-> 0, empty_lines |-> 0,
     events |-> <<>>, errors |-> <<>>]

StreamInit ==
    /\ lines = <<>>
    /\ result = ParseResult
    /\ stream_pc = "reading"

\* parse_line(line, line_number): the event, None, or the exception it raises.
parse_line(kind) ==
    CASE kind \in {"blank", "comment"} -> "None"
      [] kind = "good" -> "event"
      [] kind = "bad" -> "ValueError"
      [] kind = "out_of_range" -> "OverflowError"

\* ParseResult.add_event
ParseResult_add_event(r, line_number) ==
    [r EXCEPT !.events = Append(@, line_number), !.parsed_lines = @ + 1]

\* ParseResult.add_error
ParseResult_add_error(r, line_number) ==
    [r EXCEPT !.failed_lines = @ + 1,
              !.errors = IF Len(@) < ErrorSampleLimit THEN Append(@, line_number) ELSE @]

\* One iteration of the loop of parse_stream over a line of the given kind.
ReadLine(kind) ==
    /\ stream_pc = "reading"
    /\ Len(lines) < MaxLines
    /\ kind # "bad" =>
          Cardinality({i \in 1..Len(lines) : lines[i] # "bad"}) < MaxPassLines
    /\ lines' = Append(lines, kind)
    /\ LET line_number == Len(lines) + 1
           counted == [result EXCEPT !.total_lines = @ + 1]
       IN IF kind \in {"blank", "comment"}
          THEN /\ result' = [counted EXCEPT !.empty_lines = @ + 1]
               /\ stream_pc' = stream_pc
          ELSE CASE parse_line(kind) = "event" ->
                      /\ result' = ParseResult_add_event(counted, line_number)
                      /\ stream_pc' = stream_pc
                 [] parse_line(kind) = "None" ->
                      /\ result' = [counted EXCEPT !.empty_lines = @ + 1]
                      /\ stream_pc' = stream_pc
                 [] parse_line(kind) = "ValueError" ->
                      /\ result' = ParseResult_add_error(counted, line_number)
                      /\ stream_pc' = stream_pc
                 [] OTHER ->
                      \* no except clause matches: the exception leaves parse_stream
                      /\ result' = counted
                      /\ stream_pc' = "raised"
    /\ UNCHANGED <<earlyVars, ingestVars, fpVars, topVars, fetcherVars, execVars, uploadVars>>

\* The stream is exhausted: return result.
StreamReturn ==
    /\ stream_pc = "reading"
    /\ stream_pc' = "returned"
    /\ UNCHANGED <<earlyVars, ingestVars, fpVars, topVars, fetcherVars, execVars, uploadVars, lines, result>>

StreamNext ==
    \/ \E kind \in LineKinds : ReadLine(kind)
    \/ StreamReturn

\* The numbers of the lines read so far that parse_line cannot parse.
FailingLines == {i \in 1..Len(lines) : lines[i] \in {"bad", "out_of_range"}}

\* C21: parse_stream processes every line and never aborts on a bad line: each
\* line is counted in exactly one of parsed_lines, failed_lines, empty_lines;
\* blank and # lines go to empty_lines and yield neither an event nor an error;
\* errors holds exactly the first min(10, failed_lines) failing lines in order.
C21_EveryLineCounted ==
    /\ stream_pc # "raised"
    /\ result.total_lines = Len(lines)
    /\ result.total_lines = result.parsed_lines + result.failed_lines + result.empty_lines
    /\ result.empty_lines =
          Cardinality({i \in 1..Len(lines) : lines[i] \in {"blank", "comment"}})
    /\ result.failed_lines = Cardinality(FailingLines)
    /\ \A k \in 1..Len(result.events) : lines[result.events[k]] = "good"
    /\ Len(result.errors) =
          (IF result.failed_lines < 10 THEN result.failed_lines ELSE 10)
    /\ \A k \in 1..Len(result.errors) :
          /\ result.errors[k] \in FailingLines
          /\ Cardinality({i \in FailingLines : i < result.errors[k]}) = k - 1

(***************************************************************************)
(* Fetched files and the parse task: _fetch_logs_async stores files and    *)
(* enqueues parse_log_file, a worker executes the enqueued tasks.  One     *)
(* file confirmed through the upload API is there for comparison.          *)
(***************************************************************************)
\* Primary keys (uuid4): a log_files id is never a jobs id.
LogFileId(k) == <<"log_file", k>>

JobId(k) == <<"job", k>>

\* The job_id arguments of the parse tasks.
TaskArgs == {JobId(0)} \cup {LogFileId(k) : k \in 1..MaxFiles}

\* After confirm_upload of one file: its row, its Job and the task on the job id.
IngestInit ==
    /\ db_log_files = {[id |-> LogFileId(0), status |-> "uploaded"]}
    /\ db_jobs = {[id |-> JobId(0), log_file_id |-> LogFileId(0), status |-> "pending"]}
    /\ task_queue = {JobId(0)}
    /\ ingest = [pc |-> "fetch_logs", files |-> 0, stored |-> 0, flushed |-> {}]
    /\ parse_exec = [pc |-> "idle", job_id |-> JobId(0)]

\* fetch.py:99-112: fetch_logs returns k new files.
IngestFetchLogs(k) ==
    /\ ingest.pc = "fetch_logs"
    /\ ingest' = [ingest EXCEPT !.pc = IF k = 0 THEN "done" ELSE "store", !.files = k]
    /\ UNCHANGED <<earlyVars, streamVars, fpVars, topVars, fetcherVars, execVars, uploadVars, db_log_files, db_jobs, task_queue, parse_exec>>

\* fetch.py:117-148, one file: upload, LogFile(status="pending"), flush,
\* parse_log_file.delay(str(log_file.id)).
IngestStoreFile ==
    /\ ingest.pc = "store"
    /\ ingest.stored < ingest.files
    /\ LET log_file_id == LogFileId(ingest.stored + 1)
       IN /\ ingest' = [ingest EXCEPT
                           !.stored = @ + 1,
                           !.flushed = @ \cup {[id |-> log_file_id, status |-> "pending"]}]
          /\ task_queue' = task_queue \cup {log_file_id}
    /\ UNCHANGED <<earlyVars, streamVars, fpVars, topVars, fetcherVars, execVars, uploadVars, db_log_files, db_jobs, parse_exec>>

\* fetch.py:130 raises and the handler at 163-168 commits: the rows flushed so
\* far become visible.
IngestUploadFails ==
    /\ ingest.pc = "store"
    /\ ingest.stored < ingest.files
    /\ db_log_files' = db_log_files \cup ingest.flushed
    /\ ingest' = [ingest EXCEPT !.pc = "done", !.flushed = {}]
    /\ UNCHANGED <<earlyVars, streamVars, fpVars, topVars, fetcherVars, execVars, uploadVars, db_jobs, task_queue, parse_exec>>

\* fetch.py:150-154: every file is stored, db.commit().
IngestCommit ==
    /\ ingest.pc = "store"
    /\ ingest.stored = ingest.files
    /\ db_log_files' = db_log_files \cup ingest.flushed
    /\ ingest' = [ingest EXCEPT !.pc = "done", !.flushed = {}]
    /\ UNCHANGED <<earlyVars, streamVars, fpVars, topVars, fetcherVars, execVars, uploadVars, db_jobs, task_queue, parse_exec>>

\* parse.py:174-188: a worker takes a task; job = query(Job).filter(Job.id ==
\* job_id).first(); without job it returns {"error": "Job not found"}, else the
\* job is marked processing and committed.
ParseGetJob(job_id) ==
    /\ parse_exec.pc = "idle"
    /\ job_id \in task_queue
    /\ task_queue' = task_queue \ {job_id}
    /\ IF \E j \in db_jobs : j.id = job_id
       THEN /\ db_jobs' = {IF j.id = job_id THEN [j EXCEPT !.status = "processing"] ELSE j :
                              j \in db_jobs}
            /\ parse_exec' = [pc |-> "get_log_file", job_id |-> job_id]
       ELSE /\ UNCHANGED db_jobs
            /\ parse_exec' = [pc |-> "idle", job_id |-> job_id]
    /\ UNCHANGED <<earlyVars, streamVars, fpVars, topVars, fetcherVars, execVars, uploadVars, db_log_files, ingest>>

\* parse.py:190-201: the log file of the job is marked processing and committed.
ParseGetLogFile ==
    /\ parse_exec.pc = "get_log_file"
    /\ LET the_job == CHOOSE j \in db_jobs : j.id = parse_exec.job_id
       IN db_log_files' = {IF f.id = the_job.log_file_id
                            THEN [f EXCEPT !.status = "processing"] ELSE f :
                              f \in db_log_files}
    /\ parse_exec' = [parse_exec EXCEPT !.pc = "pipeline"]
    /\ UNCHANGED <<earlyVars, streamVars, fpVars, topVars, fetcherVars, execVars, uploadVars, db_jobs, task_queue, ingest>>

\* parse.py:203-381: the pipeline ends with the file processed, or failed.
ParseFinish(status) ==
    /\ parse_exec.pc = "pipeline"
    /\ LET the_job == CHOOSE j \in db_jobs : j.id = parse_exec.job_id
       IN /\ db_log_files' = {IF f.id = the_job.log_file_id
                               THEN [f EXCEPT !.status = status] ELSE f :
                                 f \in db_log_files}
          /\ db_jobs' = {IF j.id = the_job.id
                          THEN [j EXCEPT !.status = IF status = "processed"
                                                    THEN "completed" ELSE "failed"]
                          ELSE j : j \in db_jobs}
    /\ parse_exec' = [parse_exec EXCEPT !.pc = "idle"]
    /\ UNCHANGED <<earlyVars, streamVars, fpVars, topVars, fetcherVars, execVars, uploadVars, task_queue, ingest>>

IngestNext ==
    \/ \E k \in 0..MaxFiles : IngestFetchLogs(k)
    \/ IngestStoreFile
    \/ IngestUploadFails
    \/ IngestCommit
    \/ \E job_id \in TaskArgs : ParseGetJob(job_id)
    \/ ParseGetLogFile
    \/ \E status \in {"processed", "failed"} : ParseFinish(status)

\* Workers keep taking tasks and every execution under way goes on.
IngestFairness ==
    /\ WF_vars(IngestStoreFile)
    /\ WF_vars(IngestCommit)
    /\ WF_vars(\E job_id \in TaskArgs : ParseGetJob(job_id))
    /\ WF_vars(ParseGetLogFile)
    /\ WF_vars(\E status \in {"processed", "failed"} : ParseFinish(status))

\* C22: every LogFile row's status is one of pending_upload, uploaded,
\* processing, processed, failed, for the rows the upload API creates and for
\* the rows the fetch task creates.
C22_LogFileStatusInEnum ==
    \A f \in db_log_files :
        f.status \in {"pending_upload", "uploaded", "processing", "processed", "failed"}

\* C29: every file that a fetch run stores and records as a LogFile is
\* eventually run through the parse pipeline: while workers keep taking tasks,
\* its LogFile eventually reaches the status processed or failed.
C29_FetchedFileEventuallyParsed ==
    \A k \in 1..MaxFiles :
        (\E f \in db_log_files : f.id = LogFileId(k))
          ~> (\E f \in db_log_files :
                 f.id = LogFileId(k) /\ f.status \in {"processed", "failed"})

(***************************************************************************)
(* ParsedError.get_fingerprint: the normalised message of an error record. *)
(***************************************************************************)
\* The pieces of an error message, separated by spaces: plain words and the
\* variable substrings (integer, 0x-hex, quoted strings, absolute path, URL).
MessageTokens ==
    [kind : {"word"}, text : {"failed", "timeout"}]
      \cup [kind : {"int"}, text : {"10", "250"}]
      \cup [kind : {"hex"}, text : {"0x1F", "0xbeef"}]
      \cup [kind : {"dquoted", "squoted"}, text : {"a", "bcd"}]
      \cup [kind : {"path"}, text : {"/var/log/a.log", "/tmp/b"}]
      \cup {[kind |-> "url", text |-> <<"http://", "a.com", "/x", "">>],
            [kind |-> "url", text |-> <<"http://", "b.org", "/y/z", "">>],
            [kind |-> "url", text |-> <<"http://", "a.com", "/x", "?q=abc">>],
            [kind |-> "url", text |-> <<"http://", "a.com", "/x", "?q=def">>]}

ErrorTypes == {"ValueError", "KeyError"}

\* A piece that a substitution has replaced.
Replaced(text) == [kind |-> "replaced", text |-> text]

\* re.sub(r"\b\d+\b", "N", message)
SubNumbers(token) == IF token.kind = "int" THEN Replaced("N") ELSE token

\* re.sub(r"0x[0-9a-fA-F]+", "0xHEX", message)
SubHex(token) == IF token.kind = "hex" THEN Replaced("0xHEX") ELSE token

\* re.sub(r'"[^"]*"', '"STR"', message) and re.sub(r"'[^']*'", "'STR'", message)
SubQuoted(token) ==
    IF token.kind = "dquoted" THEN Replaced("\"STR\"")
    ELSE IF token.kind = "squoted" THEN Replaced("'STR'")
    ELSE token

\* re.sub(r"/[\w/.-]+", "/PATH", message): in a URL the match starts at the
\* // of the scheme and ends before the ? of the query string.
SubPaths(token) ==
    IF token.kind = "path" THEN Replaced("/PATH")
    ELSE IF token.kind = "url" THEN Replaced(<<"http:", "/PATH", token.text[4]>>)
    ELSE token

\* re.sub(r"https?://\S+", "URL", message)
SubUrls(token) == IF token.kind = "url" THEN Replaced("URL") ELSE token

\* ParsedError._normalize_message
_normalize_message(message) ==
    [i \in 1..Len(message) |->
        SubUrls(SubPaths(SubQuoted(SubHex(SubNumbers(message[i])))))]

\* ParsedError.get_fingerprint: the hash of error_type|message|file:line; equal
\* hashes stand for equal hashed strings.
get_fingerprint(e) == <<e.error_type, _normalize_message(e.error_message), e.location>>

FingerprintInit ==
    /\ parsed_errors \in
          [a : [error_type : {"ValueError"}, error_message : {<<>>}, location : {"app.py:10"}],
           b : [error_type : ErrorTypes, error_message : {<<>>}, location : {"app.py:10"}]]
    /\ fingerprints = None

\* The two log lines go on with one more piece each.
ReadToken(ta, tb) ==
    /\ fingerprints = None
    /\ Len(parsed_errors.a.error_message) < MaxTokens
    /\ parsed_errors' = [parsed_errors EXCEPT
                            !.a.error_message = Append(@, ta),
                            !.b.error_message = Append(@, tb)]
    /\ UNCHANGED <<earlyVars, streamVars, ingestVars, topVars, fetcherVars, execVars, uploadVars, fingerprints>>

\* error.get_fingerprint() for both records.
GetFingerprints ==
    /\ fingerprints = None
    /\ fingerprints' = Some([a |-> get_fingerprint(parsed_errors.a),
                             b |-> get_fingerprint(parsed_errors.b)])
    /\ UNCHANGED <<earlyVars, streamVars, ingestVars, topVars, fetcherVars, execVars, uploadVars, parsed_errors>>

FingerprintNext ==
    \/ \E ta, tb \in MessageTokens : ReadToken(ta, tb)
    \/ GetFingerprints

\* The two records have the same error_type and file/line, and their messages
\* differ only in variable substrings: piece by piece the same kind, and the same word.
DifferOnlyInVariables ==
    /\ parsed_errors.a.error_type = parsed_errors.b.error_type
    /\ parsed_errors.a.location = parsed_errors.b.location
    /\ \A i \in 1..Len(parsed_errors.a.error_message) :
          LET ta == parsed_errors.a.error_message[i]
              tb == parsed_errors.b.error_message[i]
          IN /\ ta.kind = tb.kind
             /\ ta.kind = "word" => ta.text = tb.text

\* C23: get_fingerprint yields the same fingerprint for two error records with
\* the same error_type and file/line whose messages differ only in integer,
\* 0x-hex, quoted-string, absolute-path or URL substrings, URLs that differ in
\* host, path or query string included.
C23_FingerprintIgnoresVariables ==
    (fingerprints # None /\ DifferOnlyInVariables) =>
        Value(fingerprints).a = Value(fingerprints).b

(***************************************************************************)
(* Aggregator: the top_paths and top_ips of to_dict.                       *)
(***************************************************************************)
\* to_dict(top_n=10)
TopN == 10

\* One path more than top_n; a path is named by the rank of its first request.
TopPathIds == 1..(TopN + 1)

TopHours == {0, 1}

TopIps == {"ip1", "ip2"}

\* The events: requests of one address for every path in one hour, and a
\* request of path 1 by another address in another hour.
TopEvents ==
    {[hour |-> 0, path |-> p, ip |-> "ip1"] : p \in TopPathIds}
      \cup {[hour |-> 1, path |-> 1, ip |-> "ip2"]}

\* collections.Counter as the sequence of its (key, count) items in insertion order.
CounterHas(counter, key) == \E i \in 1..Len(counter) : counter[i][1] = key

CounterGet(counter, key) ==
    IF CounterHas(counter, key)
    THEN (CHOOSE item \in {counter[i] : i \in 1..Len(counter)} : item[1] = key)[2]
    ELSE 0

CounterSubtract(counter, key) ==
    IF CounterHas(counter, key)
    THEN [i \in 1..Len(counter) |->
             IF counter[i][1] = key THEN <<key, counter[i][2] - 1>> ELSE counter[i]]
    ELSE Append(counter, <<key, 1>>)

\* counter[key] += 1
CounterAdd(counter, key) ==
    IF CounterHas(counter, key)
    THEN [i \in 1..Len(counter) |->
             IF counter[i][1] = key THEN <<key, counter[i][2] + 1>> ELSE counter[i]]
    ELSE Append(counter, <<key, 1>>)

\* The number of items that Counter.most_common lists before item i: those of
\* larger count, and those of equal count inserted earlier.
Rank(counter, i) ==
    Cardinality({j \in 1..Len(counter) :
                    \/ counter[j][2] > counter[i][2]
                    \/ counter[j][2] = counter[i][2] /\ j < i})

\* Counter.most_common(n): the n items of largest count, ties in insertion order.
most_common(counter, n) ==
    LET ranked == {<<Rank(counter, i), i>> : i \in 1..Len(counter)}
    IN [r \in 1..(IF Len(counter) < n THEN Len(counter) ELSE n) |->
           counter[(CHOOSE p \in ranked : p[1] = r - 1)[2]]]

\* Counter(self.ips): every member of the set with the count 1.
RECURSIVE CounterOfSet(_)
CounterOfSet(members) ==
    IF members = {} THEN <<>>
    ELSE LET m == CHOOSE x \in members : TRUE
         IN <<<<m, 1>>>> \o CounterOfSet(members \ {m})

\* HourlyBucket.to_dict(top_n): top_paths and top_ips.
HourlyBucket_to_dict(bucket) ==
    [top_paths |-> most_common(bucket.paths, TopN),
     top_ips |-> most_common(CounterOfSet(bucket.ips), TopN)]

\* AggregationResult.to_dict(top_n): top_paths.
AggregationResult_to_dict(r) == [top_paths |-> most_common(r.top_paths, TopN)]

TopInit ==
    /\ top_hourly = [h \in TopHours |-> [requests_count |-> 0, ips |-> {}, paths |-> <<>>]]
    /\ top_result = [total_requests |-> 0, top_paths |-> <<>>]
    /\ ip_requests = [h \in TopHours |-> [ip \in TopIps |-> 0]]

\* Aggregator.add_event(event); paths make their first request in the order of
\* their names, and ip_requests counts the requests of each address per hour.
TopAddEvent(event) ==
    /\ top_result.total_requests < MaxTopEvents
    /\ event.path = 1 \/ CounterHas(top_result.top_paths, event.path - 1)
    /\ CounterGet(top_result.top_paths, event.path) < MaxPathCount
    /\ top_hourly' = [top_hourly EXCEPT ![event.hour] =
                         [requests_count |-> @.requests_count + 1,
                          ips |-> @.ips \cup {event.ip},
                          paths |-> CounterAdd(@.paths, event.path)]]
    /\ top_result' = [total_requests |-> top_result.total_requests + 1,
                      top_paths |-> CounterAdd(top_result.top_paths, event.path)]
    /\ ip_requests' = [ip_requests EXCEPT ![event.hour][event.ip] = @ + 1]
    /\ UNCHANGED <<earlyVars, streamVars, ingestVars, fpVars, fetcherVars, execVars, uploadVars>>

TopNext == \E event \in TopEvents : TopAddEvent(event)

\* The (path, count) entries of top_paths for a paths counter.
ReportedPaths(counter) ==
    LET top_paths == most_common(counter, 10)
    IN {top_paths[r] : r \in 1..Len(top_paths)}

\* Every path reported from the counter `before` is reported from the counter
\* `after` with a count that is not smaller.
StaysReported(before, after) ==
    LET old == ReportedPaths(before)
        new == ReportedPaths(after)
    IN \A o \in old : \E n \in new : n[1] = o[1] /\ n[2] >= o[2]

\* No path's count shrinks; a path reported before and after has a count that
\* is not smaller; a path is dropped only when more than 10 paths are counted.
NeverReduced(before, after) ==
    LET old == ReportedPaths(before)
        new == ReportedPaths(after)
    IN /\ \A p \in TopPathIds : CounterGet(after, p) >= CounterGet(before, p)
       /\ \A o \in old :
             \/ \E n \in new : n[1] = o[1] /\ n[2] >= o[2]
             \/ /\ Len(after) > 10
                /\ \A n \in new : n[1] # o[1] /\ n[2] >= CounterGet(after, o[1])

\* C24 as stated: every path reported in top_paths (top_n = 10, per bucket and
\* global) after aggregating E is reported after aggregating E ++ E' with a
\* count that is not smaller.
C24_TopPathsNeverDrop ==
    [][/\ StaysReported(top_result.top_paths, top_result'.top_paths)
       /\ \A h \in TopHours : StaysReported(top_hourly[h].paths, top_hourly'[h].paths)]_vars

\* C24, amended: adding events never reduces a path's count; a path reported in
\* top_paths (top_n = 10, per bucket and global) is afterwards reported with a
\* count that is not smaller, or is no longer reported because more than 10
\* paths are counted and the 10 reported ones have counts at least as large.
C24_TopPathsNeverReduced ==
    [][/\ NeverReduced(top_result.top_paths, top_result'.top_paths)
       /\ \A h \in TopHours :
             \/ top_hourly'[h].paths = top_hourly[h].paths
             \/ NeverReduced(top_hourly[h].paths, top_hourly'[h].paths)]_vars

\* Eleven paths are counted, the eleventh twice: it is reported first, and
\* path 10, reported until then, no longer is.
C24_Witness ==
    /\ Len(top_result.top_paths) = 11
    /\ CounterGet(top_result.top_paths, 11) = 2
    /\ CounterGet(top_result.top_paths, 10) = 1
    /\ LET reported == AggregationResult_to_dict(top_result).top_paths
       IN /\ reported[1] = <<11, 2>>
          /\ \A j \in 1..10 : reported[j][1] # 10

\* C25: for every hourly bucket, to_dict(top_n) reports in top_ips the top_n
\* IPs by number of events, and each entry's count is the number of events of
\* that hour coming from that IP.
C25_TopIpsCountEvents ==
    \A h \in TopHours :
        LET top_ips == HourlyBucket_to_dict(top_hourly[h]).top_ips
        IN /\ \A i \in 1..Len(top_ips) : top_ips[i][2] = ip_requests[h][top_ips[i][1]]
           /\ \A ip \in TopIps :
                 ip_requests[h][ip] > 0 => \E i \in 1..Len(top_ips) : top_ips[i][1] = ip
           /\ \A i, j \in 1..Len(top_ips) : i < j => top_ips[i][2] >= top_ips[j][2]

(***************************************************************************)
(* SSHLogFetcher.fetch_logs and S3LogFetcher.fetch_logs.                   *)
(***************************************************************************)
\* How connecting and listing can end: the files are listed, an SSH or SFTP
\* error (asyncssh.Error), a refused connection (OSError), a connect timeout
\* (asyncio.TimeoutError); for S3, the listing succeeds or raises ClientError.
ConnectOutcomes == {"listed", "ssh_error", "connection_refused", "timeout"}

\* The exceptions that `except asyncssh.Error` catches.
IsAsyncsshError(ending) == ending = "ssh_error"

\* The remote entries: a plain file, a valid .gz, a .gz that is no gzip
\* (gzip.BadGzipFile), a truncated .gz (EOFError), a .gz with a corrupted
\* deflate stream (zlib.error), a file that cannot be read (SFTPError, ClientError).
EntryKinds == {"plain", "gz", "gz_bad_header", "gz_truncated", "gz_corrupted", "unreadable"}

EntryLists == UNION {[1..k -> EntryKinds] : k \in 0..MaxEntries}

\* gzip.decompress(content): the bytes, or the exception it raises.
gzip_decompress(kind) ==
    CASE kind = "gz" -> "decompressed"
      [] kind = "gz_bad_header" -> "BadGzipFile"
      [] kind = "gz_truncated" -> "EOFError"
      [] kind = "gz_corrupted" -> "zlib.error"
      [] OTHER -> "BadGzipFile"

FetcherInit ==
    /\ fetcher \in [kind : {"ssh"}, max_retries : 0..MaxRetries]
                     \cup [kind : {"s3"}, max_retries : {0}]
    /\ fetch_logs = [pc |-> "connect", attempt |-> 0, attempts_made |-> 0,
                     last_error |-> "none", slept |-> 0, todo |-> <<>>,
                     results |-> <<>>, raised |-> "none"]

\* One attempt gets as far as the list of files to fetch, or fails.  For ssh:
\* asyncssh.Error is caught, the connection is closed, and the loop sleeps and
\* goes on while attempt < max_retries, else leaves the loop and raises; any
\* other exception leaves fetch_logs.  For s3 every exception leaves fetch_logs.
ConnectAndList(ending, entries) ==
    /\ fetch_logs.pc = "connect"
    /\ fetcher.kind = "s3" => ending \in {"listed", "ssh_error"}
    /\ ending # "listed" => entries = <<>>
    /\ LET made == [fetch_logs EXCEPT !.attempts_made = @ + 1]
       IN fetch_logs' =
            IF ending = "listed"
            THEN [made EXCEPT !.pc = "fetch", !.todo = entries, !.results = <<>>]
            ELSE IF fetcher.kind = "ssh" /\ IsAsyncsshError(ending)
            THEN IF fetch_logs.attempt < fetcher.max_retries
                 THEN [made EXCEPT !.attempt = @ + 1, !.last_error = ending,
                                   !.slept = @ + 1]
                 ELSE [made EXCEPT !.pc = "raised", !.last_error = ending,
                                   !.raised = "retries_exhausted"]
            ELSE [made EXCEPT !.pc = "raised", !.last_error = ending,
                              !.raised = ending]
    /\ UNCHANGED <<earlyVars, streamVars, ingestVars, fpVars, topVars, execVars, uploadVars, fetcher>>

\* The loop body for the next file: read, decompress a .gz, append to results.
\* BadGzipFile keeps the original bytes and name; a read error skips the file;
\* any other exception of gzip.decompress leaves the loop and fetch_logs.
FetchEntry ==
    /\ fetch_logs.pc = "fetch"
    /\ fetch_logs.todo # <<>>
    /\ LET kind == Head(fetch_logs.todo)
           index == Len(fetch_logs.results) + 1
           rest == [fetch_logs EXCEPT !.todo = Tail(@)]
       IN fetch_logs' =
            IF kind = "unreadable"
            THEN [rest EXCEPT !.results = Append(@, [kind |-> kind, name |-> "skipped",
                                                     content |-> "none"])]
            ELSE IF kind = "plain"
            THEN [rest EXCEPT !.results = Append(@, [kind |-> kind, name |-> "name",
                                                     content |-> "original"])]
            ELSE IF gzip_decompress(kind) = "decompressed"
            THEN [rest EXCEPT !.results = Append(@, [kind |-> kind, name |-> "name",
                                                     content |-> "decompressed"])]
            ELSE IF gzip_decompress(kind) = "BadGzipFile"
            THEN [rest EXCEPT !.results = Append(@, [kind |-> kind, name |-> "name.gz",
                                                     content |-> "original"])]
            ELSE [rest EXCEPT !.pc = "raised", !.raised = gzip_decompress(kind)]
    /\ UNCHANGED <<earlyVars, streamVars, ingestVars, fpVars, topVars, execVars, uploadVars, fetcher>>

\* return results
FetchReturn ==
    /\ fetch_logs.pc = "fetch"
    /\ fetch_logs.todo = <<>>
    /\ fetch_logs' = [fetch_logs EXCEPT !.pc = "returned"]
    /\ UNCHANGED <<earlyVars, streamVars, ingestVars, fpVars, topVars, execVars, uploadVars, fetcher>>

FetcherNext ==
    \/ \E ending \in ConnectOutcomes, entries \in EntryLists : ConnectAndList(ending, entries)
    \/ FetchEntry
    \/ FetchReturn

\* C27: SSHLogFetcher.fetch_logs makes at most retries + 1 attempts; a network
\* error (connection refused, timeout, SSH or SFTP error while connecting or
\* listing) on an attempt before the last leads to a further attempt after a
\* delay; the first successful attempt returns its files; after the last failed
\* attempt the call raises.
C27_BoundedRetries ==
    fetcher.kind = "ssh" =>
        /\ fetch_logs.attempts_made <= fetcher.max_retries + 1
        /\ fetch_logs.slept = fetch_logs.attempt
        /\ (fetch_logs.pc = "raised"
              /\ fetch_logs.last_error \in {"ssh_error", "connection_refused", "timeout"}
              /\ fetch_logs.raised \in {"retries_exhausted", "connection_refused", "timeout"})
             => fetch_logs.attempts_made = fetcher.max_retries + 1

\* C28: in both fetchers an entry whose name ends in .gz is returned
\* decompressed without the suffix when decompression succeeds, and with its
\* original bytes and name when decompression fails for any reason (bad
\* header, truncated or corrupted stream); the fetch of the remaining entries
\* goes on.
C28_GzipBestEffort ==
    /\ \A i \in 1..Len(fetch_logs.results) :
          LET r == fetch_logs.results[i]
          IN /\ r.kind = "gz" => r.name = "name" /\ r.content = "decompressed"
             /\ r.kind \in {"gz_bad_header", "gz_truncated", "gz_corrupted"} =>
                   r.name = "name.gz" /\ r.content = "original"
    /\ fetch_logs.raised \notin {"BadGzipFile", "EOFError", "zlib.error"}

(***************************************************************************)
(* Two executions of parse_log_file for the same job_id (the task is       *)
(* delivered again while the first execution still runs: acks_late with a  *)
(* redelivery, or the same id sent twice).                                 *)
(***************************************************************************)
Workers == {"w1", "w2"}

\* The positions of one execution between its commits.
PipelinePcs == {"file_marked", "downloaded", "parsed", "aggregated", "stored"}

ExecInit ==
    /\ job_row \in [present : BOOLEAN, status : {"pending"}, progress : {0}]
    /\ log_file_row = [status |-> "uploaded"]
    /\ aggregate_rows = 0
    /\ executions = [w \in Workers |-> "delivered"]

\* job = db.query(Job).filter(Job.id == job_id).first(): a plain SELECT, no
\* with_for_update and no test of job.status; a missing job returns the error.
ExecGetJob(w) ==
    /\ executions[w] = "delivered"
    /\ executions' = [executions EXCEPT ![w] = IF job_row.present THEN "got_job" ELSE "returned"]
    /\ UNCHANGED <<earlyVars, streamVars, ingestVars, fpVars, topVars, fetcherVars, uploadVars,
                   job_row, log_file_row, aggregate_rows>>

\* job.status = PROCESSING; job.progress = 5.0; db.commit()
ExecMarkProcessing(w) ==
    /\ executions[w] = "got_job"
    /\ job_row' = [job_row EXCEPT !.status = "processing", !.progress = 5]
    /\ executions' = [executions EXCEPT ![w] = "marked"]
    /\ UNCHANGED <<earlyVars, streamVars, ingestVars, fpVars, topVars, fetcherVars, uploadVars,
                   log_file_row, aggregate_rows>>

\* log_file.status = PROCESSING; db.commit()
ExecMarkLogFile(w) ==
    /\ executions[w] = "marked"
    /\ log_file_row' = [log_file_row EXCEPT !.status = "processing"]
    /\ executions' = [executions EXCEPT ![w] = "file_marked"]
    /\ UNCHANGED <<earlyVars, streamVars, ingestVars, fpVars, topVars, fetcherVars, uploadVars,
                   job_row, aggregate_rows>>

\* One stage of the pipeline and the commit of job.progress after it:
\* download (20), parse (60), aggregate (80), store the aggregates, findings (90).
ExecStage(w) ==
    /\ executions[w] \in {"file_marked", "downloaded", "parsed", "aggregated"}
    /\ LET next == CASE executions[w] = "file_marked" -> "downloaded"
                     [] executions[w] = "downloaded" -> "parsed"
                     [] executions[w] = "parsed" -> "aggregated"
                     [] OTHER -> "stored"
           progress == CASE executions[w] = "file_marked" -> 20
                         [] executions[w] = "downloaded" -> 60
                         [] executions[w] = "parsed" -> 80
                         [] OTHER -> 90
       IN /\ executions' = [executions EXCEPT ![w] = next]
          /\ job_row' = [job_row EXCEPT !.progress = progress]
          /\ aggregate_rows' = IF next = "stored" THEN aggregate_rows + 1 ELSE aggregate_rows
    /\ UNCHANGED <<earlyVars, streamVars, ingestVars, fpVars, topVars, fetcherVars, uploadVars,
                   log_file_row>>

\* job.status = COMPLETED; job.progress = 100.0; log_file.status = PROCESSED; commit
ExecComplete(w) ==
    /\ executions[w] = "stored"
    /\ job_row' = [job_row EXCEPT !.status = "completed", !.progress = 100]
    /\ log_file_row' = [log_file_row EXCEPT !.status = "processed"]
    /\ executions' = [executions EXCEPT ![w] = "returned"]
    /\ UNCHANGED <<earlyVars, streamVars, ingestVars, fpVars, topVars, fetcherVars, uploadVars,
                   aggregate_rows>>

\* except Exception: rollback; job.status = FAILED; log_file.status = FAILED;
\* commit; raise.  Only the stages before the aggregates are stored fail here.
ExecFail(w) ==
    /\ executions[w] \in {"file_marked", "downloaded", "parsed"}
    /\ job_row' = [job_row EXCEPT !.status = "failed"]
    /\ log_file_row' = [log_file_row EXCEPT !.status = "failed"]
    /\ executions' = [executions EXCEPT ![w] = "raised"]
    /\ UNCHANGED <<earlyVars, streamVars, ingestVars, fpVars, topVars, fetcherVars, uploadVars,
                   aggregate_rows>>

ExecNext ==
    \/ \E w \in Workers : ExecGetJob(w)
    \/ \E w \in Workers : ExecMarkProcessing(w)
    \/ \E w \in Workers : ExecMarkLogFile(w)
    \/ \E w \in Workers : ExecStage(w)
    \/ \E w \in Workers : ExecComplete(w)
    \/ \E w \in Workers : ExecFail(w)

\* C26: parse_log_file locks the job row before marking it processing, so two
\* executions of the same job_id on different workers never both run the
\* parse / aggregate / persist pipeline for that job at the same time.
C26_OneExecutionInPipeline ==
    \A v \in Workers, w \in Workers :
        (executions[v] \in PipelinePcs /\ executions[w] \in PipelinePcs) => v = w

(***************************************************************************)
(* confirm_upload: requests for the same log file, interleaved at the      *)
(* awaits of the handler (each request has its own database session).      *)
(***************************************************************************)
Requests == {"r1", "r2", "r3"}

UploadInit ==
    /\ upload_log_file = [status |-> "pending_upload", locked_by |-> None]
    /\ object_exists \in BOOLEAN
    /\ upload_jobs = {}
    /\ sent_tasks = {}
    /\ confirmations = [r \in Requests |-> [pc |-> "received", status |-> None, job |-> None]]

\* result = await db.execute(select(LogFile).where(...)): a plain SELECT of
\* the committed row into the session of this request.
ConfirmSelect(r) ==
    /\ confirmations[r].pc = "received"
    /\ confirmations' = [confirmations EXCEPT ![r].pc = "selected",
                                              ![r].status = Some(upload_log_file.status)]
    /\ UNCHANGED <<earlyVars, streamVars, ingestVars, fpVars, topVars, fetcherVars, execVars,
                   upload_log_file, object_exists, upload_jobs, sent_tasks>>

\* The two checks on the loaded row (status, object in storage), each a 400
\* that changes nothing; then log_file.status = UPLOADED, db.add(job) and
\* flush: the UPDATE takes the row lock of the log file, waiting while another
\* open transaction holds it, and the INSERT gives the job its id.
ConfirmFlush(r) ==
    /\ confirmations[r].pc = "selected"
    /\ IF Value(confirmations[r].status) # "pending_upload" \/ ~object_exists
       THEN /\ confirmations' = [confirmations EXCEPT ![r].pc = "rejected"]
            /\ UNCHANGED upload_log_file
       ELSE /\ upload_log_file.locked_by \in {None, Some(r)}
            /\ upload_log_file' = [upload_log_file EXCEPT !.locked_by = Some(r)]
            /\ confirmations' = [confirmations EXCEPT ![r].pc = "flushed",
                                                      ![r].status = Some("uploaded"),
                                                      ![r].job = Some(<<"job", r>>)]
    /\ UNCHANGED <<earlyVars, streamVars, ingestVars, fpVars, topVars, fetcherVars, execVars,
                   object_exists, upload_jobs, sent_tasks>>

\* task = celery_app.send_task(..., args=[job.id]); job.celery_task_id = task.id; flush
ConfirmSendTask(r) ==
    /\ confirmations[r].pc = "flushed"
    /\ sent_tasks' = sent_tasks \cup {Value(confirmations[r].job)}
    /\ confirmations' = [confirmations EXCEPT ![r].pc = "sent"]
    /\ UNCHANGED <<earlyVars, streamVars, ingestVars, fpVars, topVars, fetcherVars, execVars,
                   upload_log_file, object_exists, upload_jobs>>

\* The response is returned and the session dependency ends the transaction.
\* The handler itself never commits; the dependency is outside this source
\* tree, so the transaction ends either way: committed (the row becomes
\* uploaded, the job is stored) or rolled back.  The row lock is released.
ConfirmEndRequest(r, committed) ==
    /\ confirmations[r].pc = "sent"
    /\ upload_log_file' = [status |-> IF committed THEN "uploaded" ELSE upload_log_file.status,
                           locked_by |-> None]
    /\ upload_jobs' = IF committed THEN upload_jobs \cup {Value(confirmations[r].job)}
                      ELSE upload_jobs
    /\ confirmations' = [confirmations EXCEPT ![r].pc = "responded"]
    /\ UNCHANGED <<earlyVars, streamVars, ingestVars, fpVars, topVars, fetcherVars, execVars,
                   object_exists, sent_tasks>>

UploadNext ==
    \/ \E r \in Requests : ConfirmSelect(r)
    \/ \E r \in Requests : ConfirmFlush(r)
    \/ \E r \in Requests : ConfirmSendTask(r)
    \/ \E r \in Requests, committed \in BOOLEAN : ConfirmEndRequest(r, committed)

\* C30: for any sequence and interleaving of confirm_upload requests for the
\* same log file at most one parse Job is created and enqueued; a rejected
\* confirmation changes no state.
C30_AtMostOneParseJob ==
    /\ Cardinality(sent_tasks) <= 1
    /\ Cardinality(upload_jobs) <= 1
    /\ \A r \in Requests :
          confirmations[r].pc = "rejected" => confirmations[r].job = None

(***************************************************************************)
(* Error-group ingest: concurrent analyze_errors_in_log_file tasks of one  *)
(* site, each in its own session and transaction (READ COMMITTED).         *)
(***************************************************************************)
Tasks == {"t1", "t2"}

Fingerprints == {"fpA", "fpB"}

\* Timestamps of parsed errors and of the database clock, on one scale.
Timestamps == 1..MaxTimestamp

\* A group's id names the ingest that created it; "t0" is an earlier ingest.
GroupIds == ({"t0"} \cup Tasks) \X Fingerprints

NoOccurrences == [id \in GroupIds |-> 0]

\* error_groups_map[fp], the session's copy of a group.
Mapped(t, fp) == CHOOSE g \in sess[t].error_groups_map : g.fingerprint = fp

InMap(t, fp) == \E g \in sess[t].error_groups_map : g.fingerprint = fp

FreshSession ==
    [pc |-> "idle", cur |-> Null, ts |-> 0, n |-> 0, now |-> 0,
     error_groups_map |-> {}, new |-> {}, occ |-> NoOccurrences]

\* The group an earlier ingest of one error left behind.
SeedGroup ==
    [id |-> <<"t0", "fpA">>, fingerprint |-> "fpA", occurrence_count |-> 1,
     first_seen |-> 1, last_seen |-> 1]

ErrIdle ==
    /\ error_groups = {}
    /\ error_occurrences = NoOccurrences
    /\ sess = [t \in Tasks |-> FreshSession]

ErrInit ==
    /\ \/ /\ error_groups = {}
          /\ error_occurrences = NoOccurrences
       \/ /\ error_groups = {SeedGroup}
          /\ error_occurrences = [NoOccurrences EXCEPT ![SeedGroup.id] = 1]
    /\ sess = [t \in Tasks |-> FreshSession]

\* The session's object of a committed row: every attribute is loaded.
Loaded(row) ==
    [id |-> row.id, fingerprint |-> row.fingerprint,
     occurrence_count |-> row.occurrence_count, first_seen |-> row.first_seen,
     last_seen |-> Some(row.last_seen), row_last_seen |-> row.last_seen,
     dirty |-> FALSE, last_seen_set |-> FALSE]

\* The UPDATE a flush emits for a changed group.  A last_seen the task did not
\* assign is set by onupdate=func.now() to the transaction's now(), and the
\* attribute is expired in the session (it leaves the object's __dict__).
FlushGroup(g, txnow) ==
    IF ~ g.dirty THEN g
    ELSE IF g.last_seen_set
    THEN [g EXCEPT !.row_last_seen = Value(g.last_seen),
                   !.dirty = FALSE, !.last_seen_set = FALSE]
    ELSE [g EXCEPT !.row_last_seen = txnow, !.last_seen = None, !.dirty = FALSE]

\* Session.flush(): autoflush before a query, db.flush(), and db.commit().
Flush(s) == [s EXCEPT !.error_groups_map = {FlushGroup(g, s.now) : g \in @}]

\* The log file is loaded (the transaction begins: now() is fixed), downloaded
\* and parsed; without errors the task returns.
StartAnalysis(t) ==
    /\ sess[t].pc = "idle"
    /\ \E found \in BOOLEAN, txnow \in Timestamps :
          sess' = [sess EXCEPT ![t].pc = IF found THEN "loop" ELSE "done",
                               ![t].now = txnow]
    /\ UNCHANGED <<parseVars, schedVars, extVars, error_groups, error_occurrences>>

\* The loop takes the next parsed error: its fingerprint and timestamp.
NextError(t, fp, ts) ==
    /\ sess[t].pc = "loop"
    /\ sess[t].n < MaxErrors
    /\ sess' = [sess EXCEPT ![t].cur = fp,
                            ![t].ts = ts,
                            ![t].pc = IF InMap(t, fp) THEN "update" ELSE "select"]
    /\ UNCHANGED <<parseVars, schedVars, extVars, error_groups, error_occurrences>>

\* select(ErrorGroup).where(site_id, fingerprint): the session autoflushes,
\* then the committed rows are read.
SelectGroup(t) ==
    /\ sess[t].pc = "select"
    /\ LET rows == {g \in error_groups : g.fingerprint = sess[t].cur}
           s == Flush(sess[t])
       IN IF rows # {}
          THEN sess' = [sess EXCEPT ![t] =
                          [s EXCEPT !.error_groups_map =
                                        @ \cup {Loaded(CHOOSE g \in rows : TRUE)},
                                    !.pc = "update"]]
          ELSE sess' = [sess EXCEPT ![t] = [s EXCEPT !.pc = "insert"]]
    /\ UNCHANGED <<parseVars, schedVars, extVars, error_groups, error_occurrences>>

\* Another transaction holds an uncommitted insert of the same (site, fingerprint).
BlockedBy(t, u) ==
    /\ u # t
    /\ sess[t].pc = "insert"
    /\ sess[t].cur \in sess[u].new

\* The unique index ix_error_groups_site_fingerprint rejects the insert.
UniqueViolation(t) == \E g \in error_groups : g.fingerprint = sess[t].cur

\* The exception leaves _analyze_errors_async: the session is rolled back.
AbortedSession == [FreshSession EXCEPT !.pc = "aborted"]

\* ErrorGroup(first_seen=ts, last_seen=ts, occurrence_count=0); db.add; db.flush()
InsertGroup(t) ==
    /\ sess[t].pc = "insert"
    /\ ~ \E u \in Tasks : BlockedBy(t, u)
    /\ IF UniqueViolation(t)
       THEN sess' = [sess EXCEPT ![t] = AbortedSession]
       ELSE LET s == Flush(sess[t])
                row == [id |-> <<t, s.cur>>, fingerprint |-> s.cur,
                        occurrence_count |-> 0, first_seen |-> s.ts,
                        last_seen |-> s.ts]
            IN sess' = [sess EXCEPT ![t] =
                          [s EXCEPT !.new = @ \cup {s.cur},
                                    !.error_groups_map = @ \cup {Loaded(row)},
                                    !.pc = "update"]]
    /\ UNCHANGED <<parseVars, schedVars, extVars, error_groups, error_occurrences>>

\* Two inserts wait for each other: the database ends one of the transactions.
DeadlockAbort(t) ==
    /\ \E u \in Tasks : BlockedBy(t, u) /\ BlockedBy(u, t)
    /\ sess' = [sess EXCEPT ![t] = AbortedSession]
    /\ UNCHANGED <<parseVars, schedVars, extVars, error_groups, error_occurrences>>

\* current_last_seen = __dict__.get("last_seen"); last_seen = ts when that is
\* None or older; occurrence_count = current_count + 1; db.add(occurrence)
UpdateGroup(t) ==
    /\ sess[t].pc = "update"
    /\ LET g == Mapped(t, sess[t].cur)
           ts == sess[t].ts
           newer == g.last_seen = None \/ ts > Value(g.last_seen)
           g2 == [g EXCEPT !.last_seen = IF newer THEN Some(ts) ELSE @,
                           !.last_seen_set = IF newer THEN TRUE ELSE @,
                           !.occurrence_count = @ + 1,
                           !.dirty = TRUE]
       IN sess' = [sess EXCEPT
                     ![t].error_groups_map = (@ \ {g}) \cup {g2},
                     ![t].occ[g.id] = @ + 1,
                     ![t].n = @ + 1,
                     ![t].cur = Null,
                     ![t].pc = "loop"]
    /\ UNCHANGED <<parseVars, schedVars, extVars, error_groups, error_occurrences>>

\* The row a session object stands for once its changes are flushed.
RowOf(c) ==
    [id |-> c.id, fingerprint |-> c.fingerprint,
     occurrence_count |-> c.occurrence_count, first_seen |-> c.first_seen,
     last_seen |-> c.row_last_seen]

\* await db.commit(): the session flushes; new groups are inserted, loaded
\* groups are updated with the session's values, occurrences are inserted.
CommitAnalysis(t) ==
    /\ sess[t].pc = "loop"
    /\ sess[t].n >= 1
    /\ LET s == Flush(sess[t])
           m == s.error_groups_map
           written(g) == IF \E c \in m : c.id = g.id
                         THEN RowOf(CHOOSE c \in m : c.id = g.id) ELSE g
       IN /\ error_groups' = {written(g) : g \in error_groups}
                               \cup {RowOf(c) : c \in {d \in m : d.fingerprint \in s.new}}
          /\ sess' = [sess EXCEPT ![t] = [s EXCEPT !.pc = "done", !.new = {},
                                                   !.occ = NoOccurrences]]
    /\ error_occurrences' = [id \in GroupIds |-> error_occurrences[id] + sess[t].occ[id]]
    /\ UNCHANGED <<parseVars, schedVars, extVars>>

ErrNext ==
    \/ \E t \in Tasks : StartAnalysis(t)
    \/ \E t \in Tasks, fp \in Fingerprints, ts \in Timestamps : NextError(t, fp, ts)
    \/ \E t \in Tasks : SelectGroup(t)
    \/ \E t \in Tasks : InsertGroup(t)
    \/ \E t \in Tasks : DeadlockAbort(t)
    \/ \E t \in Tasks : UpdateGroup(t)
    \/ \E t \in Tasks : CommitAnalysis(t)

\* C10: create-or-update of an ErrorGroup is atomic: there is at most one group
\* per (site_id, fingerprint), and no ingest task aborts because another task
\* created the group of the same new fingerprint first.
C10_AtomicCreateOrUpdate ==
    /\ \A g1, g2 \in error_groups : g1.fingerprint = g2.fingerprint => g1 = g2
    /\ \A t \in Tasks : sess[t].pc # "aborted"

C12_FirstSeenBeforeLastSeen ==
    \A g \in error_groups : g.first_seen <= g.last_seen

(***************************************************************************)
(* Specifications: one per subsystem; the other subsystems stay idle.      *)
(***************************************************************************)
ParseIdle ==
    /\ events = <<>>
    /\ jobExists = FALSE
    /\ lfExists = FALSE
    /\ siteExists = FALSE
    /\ job = [status |-> "pending", progress |-> 0, error_message |-> Null]
    /\ log_file = [status |-> "uploaded"]
    /\ aggregates = NoRows
    /\ findings = NoFindings
    /\ pc = "idle"
    /\ jobLoaded = FALSE
    /\ lfLoaded = FALSE
    /\ pending = NoRows
    /\ todo = <<>>
    /\ created_aggregates = <<>>
    /\ msg = "acked"
    /\ losses = 0
    /\ outcome = "none"

SchedIdle ==
    /\ now = 0
    /\ ticks = 0
    /\ log_sources = <<>>
    /\ queued = <<>>
    /\ running = <<>>

FetchIdle ==
    /\ fsource = <<>>
    /\ fetch = <<>>
    /\ fetched_files = 0
    /\ parse_queue = 0

RedactIdle ==
    /\ stored_source = <<>>
    /\ response = [route |-> "none", connection_configs |-> <<>>]

AnomIdle ==
    /\ site_aggregates = <<>>
    /\ anomaly_call = <<>>

SecIdle ==
    /\ sec_events = <<>>
    /\ sec_findings = <<>>

AggIdle ==
    /\ agg_events = <<>>
    /\ _hourly = {}
    /\ _result = [hourly_buckets |-> <<>>, total_requests |-> 0,
                  status_breakdown |-> [c \in {"2xx", "3xx", "4xx", "5xx", "other"} |-> 0]]

StreamIdle ==
    /\ lines = <<>>
    /\ result = [total_lines |-> 0, parsed_lines |-> 0, failed_lines |-> 0,
                 empty_lines |-> 0, events |-> <<>>, errors |-> <<>>]
    /\ stream_pc = "returned"

IngestIdle ==
    /\ db_log_files = {}
    /\ db_jobs = {}
    /\ task_queue = {}
    /\ ingest = [pc |-> "done", files |-> 0, stored |-> 0, flushed |-> {}]
    /\ parse_exec = [pc |-> "idle", job_id |-> <<"job", 0>>]

FingerprintIdle ==
    /\ parsed_errors = <<>>
    /\ fingerprints = <<>>

TopIdle ==
    /\ top_hourly = <<>>
    /\ top_result = [total_requests |-> 0, top_paths |-> <<>>]
    /\ ip_requests = <<>>

FetcherIdle ==
    /\ fetcher = <<>>
    /\ fetch_logs = <<>>

ExecIdle ==
    /\ job_row = <<>>
    /\ log_file_row = <<>>
    /\ aggregate_rows = 0
    /\ executions = <<>>

UploadIdle ==
    /\ upload_log_file = <<>>
    /\ object_exists = FALSE
    /\ upload_jobs = {}
    /\ sent_tasks = {}
    /\ confirmations = <<>>

LateIdle ==
    /\ StreamIdle /\ IngestIdle /\ FingerprintIdle /\ TopIdle /\ FetcherIdle /\ ExecIdle
    /\ UploadIdle

EarlyExtIdle == FetchIdle /\ RedactIdle /\ AnomIdle /\ SecIdle /\ AggIdle

ExtIdle == FetchIdle /\ RedactIdle /\ AnomIdle /\ SecIdle /\ AggIdle /\ LateIdle

Init == ParseInit /\ SchedIdle /\ ErrIdle /\ ExtIdle

Next == ParseNext

Spec == Init /\ [][Next]_vars

SchedSpecInit == SchedInit /\ ParseIdle /\ ErrIdle /\ ExtIdle

SchedSpec == SchedSpecInit /\ [][SchedNext]_vars

ErrSpecInit == ErrInit /\ ParseIdle /\ SchedIdle /\ ExtIdle

ErrSpec == ErrSpecInit /\ [][ErrNext]_vars

FetchSpecInit ==
    /\ FetchInit /\ ParseIdle /\ SchedIdle /\ ErrIdle /\ LateIdle
    /\ RedactIdle /\ AnomIdle /\ SecIdle /\ AggIdle

FetchSpec == FetchSpecInit /\ [][FetchNext]_vars

RedactSpecInit ==
    /\ RedactInit /\ ParseIdle /\ SchedIdle /\ ErrIdle /\ LateIdle
    /\ FetchIdle /\ AnomIdle /\ SecIdle /\ AggIdle

RedactSpec == RedactSpecInit /\ [][RedactNext]_vars

AnomSpecInit ==
    /\ AnomInit /\ ParseIdle /\ SchedIdle /\ ErrIdle /\ LateIdle
    /\ FetchIdle /\ RedactIdle /\ SecIdle /\ AggIdle

AnomSpec == AnomSpecInit /\ [][AnomNext]_vars

SecSpecInit ==
    /\ SecInit /\ ParseIdle /\ SchedIdle /\ ErrIdle /\ LateIdle
    /\ FetchIdle /\ RedactIdle /\ AnomIdle /\ AggIdle

BurstSpec == SecSpecInit /\ [][BurstNext]_vars

EventRuleSpec == SecSpecInit /\ [][EventRuleNext]_vars

AggSpecInit ==
    /\ AggInit /\ ParseIdle /\ SchedIdle /\ ErrIdle /\ LateIdle
    /\ FetchIdle /\ RedactIdle /\ AnomIdle /\ SecIdle

AggSpec == AggSpecInit /\ [][AggNext]_vars

StreamSpecInit ==
    /\ StreamInit /\ ParseIdle /\ SchedIdle /\ ErrIdle /\ EarlyExtIdle
    /\ IngestIdle /\ FingerprintIdle /\ TopIdle /\ FetcherIdle /\ ExecIdle /\ UploadIdle

StreamSpec == StreamSpecInit /\ [][StreamNext]_vars

IngestSpecInit ==
    /\ IngestInit /\ ParseIdle /\ SchedIdle /\ ErrIdle /\ EarlyExtIdle
    /\ StreamIdle /\ FingerprintIdle /\ TopIdle /\ FetcherIdle /\ ExecIdle /\ UploadIdle

IngestSpec == IngestSpecInit /\ [][IngestNext]_vars

IngestFairSpec == IngestSpec /\ IngestFairness

FingerprintSpecInit ==
    /\ FingerprintInit /\ ParseIdle /\ SchedIdle /\ ErrIdle /\ EarlyExtIdle
    /\ StreamIdle /\ IngestIdle /\ TopIdle /\ FetcherIdle /\ ExecIdle /\ UploadIdle

FingerprintSpec == FingerprintSpecInit /\ [][FingerprintNext]_vars

TopSpecInit ==
    /\ TopInit /\ ParseIdle /\ SchedIdle /\ ErrIdle /\ EarlyExtIdle
    /\ StreamIdle /\ IngestIdle /\ FingerprintIdle /\ FetcherIdle /\ ExecIdle /\ UploadIdle

TopSpec == TopSpecInit /\ [][TopNext]_vars

FetcherSpecInit ==
    /\ FetcherInit /\ ParseIdle /\ SchedIdle /\ ErrIdle /\ EarlyExtIdle
    /\ StreamIdle /\ IngestIdle /\ FingerprintIdle /\ TopIdle /\ ExecIdle /\ UploadIdle

FetcherSpec == FetcherSpecInit /\ [][FetcherNext]_vars

ExecSpecInit ==
    /\ ExecInit /\ ParseIdle /\ SchedIdle /\ ErrIdle /\ EarlyExtIdle
    /\ StreamIdle /\ IngestIdle /\ FingerprintIdle /\ TopIdle /\ FetcherIdle /\ UploadIdle

ExecSpec == ExecSpecInit /\ [][ExecNext]_vars

UploadSpecInit ==
    /\ UploadInit /\ ParseIdle /\ SchedIdle /\ ErrIdle /\ EarlyExtIdle
    /\ StreamIdle /\ IngestIdle /\ FingerprintIdle /\ TopIdle /\ FetcherIdle /\ ExecIdle

UploadSpec == UploadSpecInit /\ [][UploadNext]_vars

====
